---- MODULE Spec2Model ----
(***************************************************************************)
(* A model of python_htsp/htsp_session.py: the HTSPSession engine.         *)
(*                                                                         *)
(* The session is single threaded.  Its control state is a call stack of   *)
(* frames (stack), one frame per active call of a session method; the top  *)
(* frame is the one executing.  Every blocking _recv() is a step of its    *)
(* own whose input, the message the server sent, is drawn from the server  *)
(* alphabet selected by srv.  A raised exception unwinds the whole stack   *)
(* in the step that raises it.                                             *)
(*                                                                         *)
(* A message (a dict decoded by htsmsg) is a function from field names to  *)
(* values.  The value of 'method' is a string, every other value is a      *)
(* number; 0 stands for every falsy value of the protocol (0, '', []).     *)
(* A cached entity (HTSPTag, HTSPChannel, ...) is its _message dict.       *)
(***************************************************************************)
EXTENDS Integers, Sequences, FiniteSets

VARIABLES
    _sock,                  \* "None" or "connected"
    _hello,                 \* None or the hello reply
    _user,                  \* 0 (None) or a user name
    _digest,                \* 0 (None) or a digest
    _sequence,              \* the sequence counter
    _command_pending,       \* the pending flag
    _initial_data,          \* the synchronized flag
    _tags,                  \* tagId -> record
    _channels,              \* channelId -> record
    _events,                \* [on |-> FALSE] is None; [on |-> TRUE, d |-> map]
    _dvr_entries,           \* id -> record
    _auto_record_entries,   \* id -> record
    _callbacks,             \* the list of observers
    stack,                  \* the call stack, bottom first
    ret,                    \* how the last finished call ended
    wire,                   \* the requests put on the connection, in order
    srv,                    \* which alphabet the server sends from
    defaults                \* the dict that is the default of the parameter
                            \* args of _invoke_command: one object, shared
                            \* by every call that passes no args

vars == <<_sock, _hello, _user, _digest, _sequence, _command_pending,
          _initial_data, _tags, _channels, _events, _dvr_entries,
          _auto_record_entries, _callbacks, stack, ret, wire, srv,
          defaults>>

conn == <<_sock, _hello, _user, _digest>>
maps == <<_tags, _channels, _events, _dvr_entries, _auto_record_entries>>

-----------------------------------------------------------------------------
(* Bounds of the model. *)

\* the sequence counter is capped: no request is started at MaxSeq
MaxSeq == 3
\* at most MaxQueue messages are held by one pending request
MaxQueue == 2
\* at most MaxCallbacks observers are registered
MaxCallbacks == 2
\* entity identifiers are 1..MaxId
MaxId == 2

\* the messages one fetch_initial_data may consume
MaxSync == 3

Ids == 1..MaxId

HTSP_PROTO_VERSION == 17

-----------------------------------------------------------------------------
(* Values. *)

None == [none |-> TRUE]

EmptyMap == [x \in {} |-> None]

\* d[k] = v
Put(d, k, v) == [x \in (DOMAIN d) \cup {k} |-> IF x = k THEN v ELSE d[x]]

\* d.pop(k)
Pop(d, k) == [x \in (DOMAIN d) \ {k} |-> d[x]]

\* Python's truth value of message[key]: the method name is a non-empty
\* string, the other values are numbers
Truthy(key, value) == IF key = "method" THEN value # "" ELSE value # 0

\* the cache maps and the synchronized flag, as one record
Cache == [tags |-> _tags, channels |-> _channels, events |-> _events,
          dvr |-> _dvr_entries, autorec |-> _auto_record_entries,
          initial_data |-> _initial_data]

\* what a handler yields: the cache after it, its return value, the error raised
Done(c, n) == [c |-> c, n |-> n, err |-> "none"]
Raise(c, e) == [c |-> c, n |-> None, err |-> e]

-----------------------------------------------------------------------------
(* The entity cache: HTSPSession._handle_* and _update_reponse. *)

_update_reponse_replace(old, new) ==
    [k \in (DOMAIN old) \cup (DOMAIN new) |->
        IF k \in DOMAIN new THEN new[k] ELSE old[k]]

_update_reponse(old, new) ==
    [k \in (DOMAIN old) \cup {x \in DOMAIN new : Truthy(x, new[x])} |->
        IF k \in DOMAIN new /\ Truthy(k, new[k]) THEN new[k] ELSE old[k]]

_handle_initialSyncCompleted(c, message) ==
    Done([c EXCEPT !.initial_data = TRUE], None)

\* d[id] = entity; return entity
AddTo(c, field, idkey, message) ==
    IF idkey \notin DOMAIN message THEN Raise(c, "KeyError")
    ELSE Done([c EXCEPT ![field] = Put(c[field], message[idkey], message)],
              message)

\* old = d[new.id]; _update_reponse(old, new); return old
UpdateIn(c, field, idkey, message) ==
    IF idkey \notin DOMAIN message THEN Raise(c, "KeyError")
    ELSE IF message[idkey] \notin DOMAIN c[field] THEN Raise(c, "KeyError")
    ELSE LET merged == _update_reponse(c[field][message[idkey]], message)
         IN  Done([c EXCEPT ![field] = Put(c[field], message[idkey], merged)],
                  merged)

_handle_tagAdd(c, message) == AddTo(c, "tags", "tagId", message)

\* a tagUpdate that stores the message when the tag is not cached
_handle_tagUpdate_upsert(c, message) ==
    IF "tagId" \in DOMAIN message /\ message["tagId"] \notin DOMAIN c.tags
    THEN AddTo(c, "tags", "tagId", message)
    ELSE UpdateIn(c, "tags", "tagId", message)

_handle_tagUpdate(c, message) == UpdateIn(c, "tags", "tagId", message)

_handle_channelAdd(c, message) == AddTo(c, "channels", "channelId", message)

_handle_channelUpdate(c, message) ==
    UpdateIn(c, "channels", "channelId", message)

_handle_eventAdd(c, message) ==
    IF ~c.events.on THEN Done(c, message)
    ELSE IF "eventId" \notin DOMAIN message THEN Raise(c, "KeyError")
    ELSE Done([c EXCEPT !.events.d = Put(@, message["eventId"], message)],
              message)

_handle_eventDelete(c, message) ==
    IF ~c.events.on THEN Done(c, None)
    ELSE IF "eventId" \notin DOMAIN message THEN Raise(c, "KeyError")
    ELSE IF message["eventId"] \in DOMAIN c.events.d
         THEN Done([c EXCEPT !.events.d = Pop(@, message["eventId"])],
                   c.events.d[message["eventId"]])
         ELSE Done(c, None)

\* a dvrEntryAdd that merges the message into the entry it finds
_handle_dvrEntryAdd_merge(c, message) ==
    IF "id" \in DOMAIN message /\ message["id"] \in DOMAIN c.dvr
    THEN UpdateIn(c, "dvr", "id", message)
    ELSE AddTo(c, "dvr", "id", message)

_handle_dvrEntryAdd(c, message) == AddTo(c, "dvr", "id", message)

_handle_dvrEntryDelete_keep(c, message) ==
    IF "id" \notin DOMAIN message THEN Raise(c, "KeyError")
    ELSE IF message["id"] \in DOMAIN c.dvr
         THEN Done(c, c.dvr[message["id"]])
         ELSE Done(c, None)

_handle_dvrEntryDelete(c, message) ==
    IF "id" \notin DOMAIN message THEN Raise(c, "KeyError")
    ELSE IF message["id"] \in DOMAIN c.dvr
         THEN Done([c EXCEPT !.dvr = Pop(@, message["id"])],
                   c.dvr[message["id"]])
         ELSE Done(c, None)

_handle_dvrEntryUpdate(c, message) == UpdateIn(c, "dvr", "id", message)

_handle_autorecEntryAdd(c, message) == AddTo(c, "autorec", "id", message)

_handle_autorecEntryUpdate(c, message) ==
    UpdateIn(c, "autorec", "id", message)

\* _handleMessage: dispatch on '_handle_' + message['method']
_handleMessage_strict(c, message) == Raise(c, "AttributeError")

\* _handleMessage: the handler named after the verb, when there is one
_handleMessage(c, message) ==
    IF "method" \notin DOMAIN message THEN Done(c, None)
    ELSE CASE message.method = "initialSyncCompleted" ->
                  _handle_initialSyncCompleted(c, message)
           [] message.method = "tagAdd" -> _handle_tagAdd(c, message)
           [] message.method = "tagUpdate" -> _handle_tagUpdate(c, message)
           [] message.method = "channelAdd" -> _handle_channelAdd(c, message)
           [] message.method = "channelUpdate" ->
                  _handle_channelUpdate(c, message)
           [] message.method = "eventAdd" -> _handle_eventAdd(c, message)
           [] message.method = "eventDelete" -> _handle_eventDelete(c, message)
           [] message.method = "dvrEntryAdd" -> _handle_dvrEntryAdd(c, message)
           [] message.method = "dvrEntryDelete" ->
                  _handle_dvrEntryDelete(c, message)
           [] message.method = "dvrEntryUpdate" ->
                  _handle_dvrEntryUpdate(c, message)
           [] message.method = "autorecEntryAdd" ->
                  _handle_autorecEntryAdd(c, message)
           [] message.method = "autorecEntryUpdate" ->
                  _handle_autorecEntryUpdate(c, message)
           [] OTHER -> Done(c, None)

-----------------------------------------------------------------------------
(* Messages the server sends. *)

\* the pushes of the session alphabet: one recording that is added, updated
\* and deleted, the end of the bulk synchronization, and a verb the session
\* has no handler for
SessionPush ==
    { [method |-> "dvrEntryAdd", id |-> 1, title |-> 1],
      [method |-> "dvrEntryUpdate", id |-> 1, title |-> 2],
      [method |-> "dvrEntryDelete", id |-> 1],
      [method |-> "initialSyncCompleted"],
      [method |-> "subscriptionStatus"] }

\* a message carrying a sequence tag
Reply(s) == [seq |-> s]

\* the server answers the pending request, or sends the tag that follows
Replies(sequence) == {Reply(sequence), Reply(sequence + 1)}

\* the entity kinds: the field that holds the identifier, two more fields,
\* and the stem of the verbs
Kinds ==
    [tag |-> [idkey |-> "tagId", a |-> "tagName", b |-> "tagIcon",
              stem |-> "tag"],
     channel |-> [idkey |-> "channelId", a |-> "channelName",
                  b |-> "channelNumber", stem |-> "channel"],
     event |-> [idkey |-> "eventId", a |-> "title", b |-> "description",
                stem |-> "event"],
     dvr |-> [idkey |-> "id", a |-> "title", b |-> "retention",
              stem |-> "dvrEntry"],
     autorec |-> [idkey |-> "id", a |-> "title", b |-> "retention",
                  stem |-> "autorecEntry"]]

\* the message {method: method, idkey: id} with the fields of payload
Msg(method, idkey, id, payload) ==
    [x \in {"method", idkey} \cup DOMAIN payload |->
        IF x = "method" THEN method ELSE IF x = idkey THEN id ELSE payload[x]]

\* what an add carries: both fields, or the first only
AddPayloads(a, b) == {[x \in {a, b} |-> 1], [x \in {a} |-> 1]}

\* what an update carries: a new value for one field, an empty value, or both
UpdatePayloads(a, b) ==
    { [x \in {a} |-> 2], [x \in {b} |-> 2], [x \in {a} |-> 0],
      [x \in {a, b} |-> IF x = a THEN 2 ELSE 0] }

\* the pushes about one entity kind: its Add, Update and Delete verbs (the
\* session has no handler for some of them)
KindPush(kind) ==
    LET f == Kinds[kind]
        stem == f.stem
    IN  {Msg(IF stem = "tag" THEN "tagAdd"
             ELSE IF stem = "channel" THEN "channelAdd"
             ELSE IF stem = "event" THEN "eventAdd"
             ELSE IF stem = "dvrEntry" THEN "dvrEntryAdd"
             ELSE "autorecEntryAdd", f.idkey, id, payload) :
            id \in Ids, payload \in AddPayloads(f.a, f.b)}
        \cup
        {Msg(IF stem = "tag" THEN "tagUpdate"
             ELSE IF stem = "channel" THEN "channelUpdate"
             ELSE IF stem = "event" THEN "eventUpdate"
             ELSE IF stem = "dvrEntry" THEN "dvrEntryUpdate"
             ELSE "autorecEntryUpdate", f.idkey, id, payload) :
            id \in Ids, payload \in UpdatePayloads(f.a, f.b)}
        \cup
        {Msg(IF stem = "tag" THEN "tagDelete"
             ELSE IF stem = "channel" THEN "channelDelete"
             ELSE IF stem = "event" THEN "eventDelete"
             ELSE IF stem = "dvrEntry" THEN "dvrEntryDelete"
             ELSE "autorecEntryDelete", f.idkey, id, EmptyMap) :
            id \in Ids}

\* the records of a bulk synchronization: a tag, a channel mapped to it,
\* recordings in every state, an automatic recording, and the marker
SyncPush ==
    { [method |-> "tagAdd", tagId |-> 1, tagName |-> 1],
      [method |-> "channelAdd", channelId |-> 1, channelName |-> 1,
       tags |-> <<1>>],
      [method |-> "dvrEntryAdd", id |-> 1, state |-> "completed"],
      [method |-> "dvrEntryAdd", id |-> 1, state |-> "scheduled"],
      [method |-> "dvrEntryAdd", id |-> 2, state |-> "recording"],
      [method |-> "dvrEntryAdd", id |-> 2, state |-> "missed"],
      [method |-> "autorecEntryAdd", id |-> 1, title |-> 1],
      [method |-> "initialSyncCompleted"] }

\* messages with a sequence tag that the synchronizing server sends after it
\* has answered: a stray reply, and a record that carries a tag
SyncTagged ==
    { [seq |-> 0],
      [seq |-> 0, method |-> "tagAdd", tagId |-> 2, tagName |-> 1] }

\* what the server named s pushes while the session's top frame is frame:
\* the synchronizing server sends its records once it was asked for them
Push(s) == IF s = "session" THEN SessionPush ELSE KindPush(s)

\* the protocol versions the servers of the model announce in 'hello'
ServerVersions == {2, 3, 13, 17}

\* a reply that signals failure
Failure(sequence) == [seq |-> sequence, success |-> 0, error |-> 7]

\* the replies of a server to a request: those of success and, where the
\* request can be refused, those of failure
HtspReplies(method, args, sequence) ==
    CASE method = "hello" ->
            {[seq |-> sequence, htspversion |-> v, challenge |-> 1] :
                v \in ServerVersions}
      [] method = "authenticate" ->
            {[seq |-> sequence], [seq |-> sequence, noaccess |-> 1]}
      [] method = "getDiskSpace" ->
            {[seq |-> sequence, freediskspace |-> 1, totaldiskspace |-> 2],
             Failure(sequence)}
      [] method = "getSysTime" ->
            {[seq |-> sequence, time |-> 1, timezone |-> 0],
             Failure(sequence)}
      [] method = "getChannel" ->
            {[seq |-> sequence, channelId |-> args.channelId,
              channelName |-> 1],
             Failure(sequence)}
      [] method = "getEvent" ->
            {[seq |-> sequence, eventId |-> args.eventId, title |-> 1,
              start |-> 1, stop |-> 2],
             [seq |-> sequence, eventId |-> args.eventId, title |-> 1],
             Failure(sequence)}
      [] method = "getEvents" ->
            {[seq |-> sequence, events |-> <<[eventId |-> 1, title |-> 1]>>],
             Failure(sequence)}
      [] method = "addDvrEntry" ->
            {[seq |-> sequence, success |-> 1, id |-> 1], Failure(sequence)}
      [] method = "cancelDvrEntry" ->
            {[seq |-> sequence, success |-> 1], Failure(sequence)}
      [] OTHER -> {[seq |-> sequence]}

\* the push that tells of the recording an addDvrEntry has created
HtspPush(frame) ==
    IF frame.fn = "_invoke_command" /\ frame.method = "addDvrEntry"
    THEN {[method |-> "dvrEntryAdd", id |-> 1, title |-> frame.args.title]}
    ELSE {}

\* the pushes of the printing alphabet: a channel that names its current
\* event, its next event or both, and a recording
PrintPush ==
    { [method |-> "channelAdd", channelId |-> 1, channelName |-> 1,
       channelNumber |-> 1, eventId |-> 1],
      [method |-> "channelAdd", channelId |-> 1, channelName |-> 1,
       channelNumber |-> 1, nextEventId |-> 1],
      [method |-> "channelAdd", channelId |-> 1, channelName |-> 1,
       channelNumber |-> 1, eventId |-> 1, nextEventId |-> 2],
      [method |-> "dvrEntryAdd", id |-> 1, title |-> 1] }

PushTo(s, frame) ==
    IF s = "htsp" THEN HtspPush(frame) ELSE
    IF s = "print" THEN PrintPush ELSE
    IF s = "sync"
    THEN (IF frame.fn = "fetch_initial_data" THEN SyncPush \cup SyncTagged
          ELSE IF frame.fn = "_invoke_command"
                  /\ frame.method = "enableAsyncMetadata"
          THEN SyncPush ELSE {})
    ELSE IF s \in {"session"} \cup DOMAIN Kinds THEN Push(s)
    ELSE {}

\* the tagged messages the server named s may send to the pending request
Answers(s, frame, sequence) ==
    IF s = "session" THEN Replies(sequence)
    ELSE IF s \in {"htsp", "print"}
    THEN HtspReplies(frame.method, frame.args, sequence)
    ELSE {Reply(sequence)}

-----------------------------------------------------------------------------
(* Observers: the callbacks handed to monitor().  obs only records what it  *)
(* is given; quitter does too, and removes itself from the session's list  *)
(* when it is told that a recording was deleted; raiser raises an          *)
(* Exception when it is told that a recording was updated; printer prints  *)
(* what it is given, as handle_event of example.py does.                   *)

Observers == {"obs", "quitter"}

\* the class of the notification the handler of method yields, when it
\* yields one
ClassOf(method) ==
    CASE method \in {"tagAdd", "tagUpdate"} -> "HTSPTag"
      [] method \in {"channelAdd", "channelUpdate"} -> "HTSPChannel"
      [] method \in {"eventAdd", "eventDelete"} -> "HTSPEvent"
      [] method \in {"dvrEntryAdd", "dvrEntryUpdate", "dvrEntryDelete"} ->
            "HTSPDVREntry"
      [] method \in {"autorecEntryAdd", "autorecEntryUpdate"} ->
            "HTSPAutoRecordEntry"
      [] OTHER -> "None"

\* HTSPEvent.__str__ formats title, start, stop and duration: the error it
\* raises, "none" when it raises none
HTSPEvent__str__(event) ==
    IF {"title", "start", "stop"} \subseteq DOMAIN event THEN "none"
    ELSE "KeyError"

\* the error that the properties which __str__ of notification reads before
\* it calls the session raise: number and name of HTSPChannel, title of
\* HTSPAutoRecordEntry, and the fields of HTSPEvent; HTSPDVREntry reads with
\* get(), HTSPTag has no __str__
StrReads(method, notification) ==
    IF notification = None THEN "none"
    ELSE CASE ClassOf(method) = "HTSPChannel" ->
                 IF {"channelNumber", "channelName"} \subseteq
                        DOMAIN notification
                 THEN "none" ELSE "KeyError"
           [] ClassOf(method) = "HTSPEvent" -> HTSPEvent__str__(notification)
           [] ClassOf(method) = "HTSPAutoRecordEntry" ->
                 IF "title" \in DOMAIN notification THEN "none"
                 ELSE "KeyError"
           [] OTHER -> "none"

\* the events HTSPChannel.__str__ asks _get_event for, in order: self.now
\* reads 'eventId', then self.next reads 'nextEventId'
Asks(method, notification) ==
    IF notification = None \/ ClassOf(method) # "HTSPChannel" THEN <<>>
    ELSE (IF "eventId" \in DOMAIN notification
          THEN <<notification.eventId>> ELSE <<>>)
         \o (IF "nextEventId" \in DOMAIN notification
             THEN <<notification.nextEventId>> ELSE <<>>)

\* callback(method, notification) prints the notification, as handle_event
\* of example.py does
Prints(callback, method, notification) == callback = "printer"

\* the error that formatting the events _get_event has returned raises
Formats(events) ==
    IF \E j \in 1..Len(events) : HTSPEvent__str__(events[j]) # "none"
    THEN "KeyError" ELSE "none"

\* callback(method, notification) raises
Raises(callback, method) ==
    callback = "raiser" /\ method = "dvrEntryUpdate"

\* the callbacks the application may hand to monitor() now: obs at any time,
\* quitter while it is not registered
MayRegister(list) ==
    {x \in Observers : x = "obs" \/ \A j \in 1..Len(list) : list[j] # x}

\* the position of the first x in list, 0 when there is none
IndexOf(list, x) ==
    IF \E j \in 1..Len(list) : list[j] = x
    THEN CHOOSE j \in 1..Len(list) :
            list[j] = x /\ \A h \in 1..(j - 1) : list[h] # x
    ELSE 0

\* list.remove(x), for x in list
Remove(list, x) ==
    LET j == IndexOf(list, x)
    IN  SubSeq(list, 1, j - 1) \o SubSeq(list, j + 1, Len(list))

\* the list of observers after callback(method, notification) has run
AfterCallback(list, callback, method) ==
    IF callback = "quitter" /\ method = "dvrEntryDelete"
    THEN Remove(list, callback)
    ELSE list

-----------------------------------------------------------------------------
(* The call stack. *)

NoRet == [kind |-> "none"]

Returned(fn, val, frame) ==
    [kind |-> "value", fn |-> fn, val |-> val, err |-> "none", frame |-> frame]

Top == stack[Len(stack)]

SetTop(frame) == [stack EXCEPT ![Len(stack)] = frame]

\* the top frame moves on to frame and calls callee
Call(frame, callee) == Append(SetTop(frame), callee)

Below == SubSeq(stack, 1, Len(stack) - 1)

At(fn, pc) == stack # <<>> /\ Top.fn = fn /\ Top.pc = pc

\* the top frame's callee has returned
Back(fn, pc, callee) ==
    At(fn, pc) /\ ret.kind = "value" /\ ret.fn = callee

InTryNever == FALSE

\* the stack's bottom frame is monitor(), inside its try block
InTry ==
    /\ stack # <<>>
    /\ stack[1].fn = "monitor"
    /\ stack[1].pc \in {"recv", "await_notify"}

\* frame raises err (an Exception): every frame is left; monitor's try block
\* catches it, prints it and returns
Throw(err, frame) ==
    /\ stack' = <<>>
    /\ ret' = IF InTry
              THEN [kind |-> "value", fn |-> "monitor", val |-> None,
                    err |-> err, frame |-> frame]
              ELSE [kind |-> "error", fn |-> frame.fn, val |-> None,
                    err |-> err, frame |-> frame]

\* frame with its local variable message, as the traceback of an error
\* raised in a receive loop shows it
Local(frame, message) ==
    [k \in (DOMAIN frame) \cup {"message"} |->
        IF k = "message" THEN message ELSE frame[k]]

HelloFrame == [fn |-> "hello", pc |-> "start"]

\* synced records the messages the call has consumed
FetchFrame(events) ==
    [fn |-> "fetch_initial_data", pc |-> "start", events |-> events,
     synced |-> <<>>]

MonitorFrame(callback) ==
    [fn |-> "monitor", pc |-> "start", callback |-> callback]

\* the args of a call of _invoke_command that passes none
Default == [default |-> TRUE]

\* sent, arrived, tagged, applied and notified record what the call did
InvokeFrame(method, args) ==
    [fn |-> "_invoke_command", pc |-> "start", method |-> method,
     args |-> args, notify_queue |-> <<>>, message |-> None, i |-> 1,
     sent |-> -1, arrived |-> <<>>, tagged |-> <<>>, applied |-> <<>>,
     notified |-> <<>>]

\* registered is the list when the fan-out began; invoked records the calls;
\* before is the cache as it was when the message was handed to its handler
NotifyFrame(message, notification) ==
    [fn |-> "_notify", pc |-> "loop", message |-> message,
     notification |-> notification, k |-> 1,
     registered |-> _callbacks, invoked |-> <<>>, changed |-> FALSE,
     reads |-> <<>>, before |-> Cache]

\* wired records how many requests had been sent when the call began; event
\* is the event add_dvr_entry has fetched for the entry it was given
OpFrame(fn, arg) ==
    [fn |-> fn, pc |-> "start", arg |-> arg, wired |-> Len(wire),
     event |-> None]

\* the cache becomes c
SetCache(c) ==
    /\ _tags' = c.tags
    /\ _channels' = c.channels
    /\ _events' = c.events
    /\ _dvr_entries' = c.dvr
    /\ _auto_record_entries' = c.autorec
    /\ _initial_data' = c.initial_data

-----------------------------------------------------------------------------
(* The application calls a public operation of an idle session. *)

\* the application fetches without EPG events, the default of
\* fetch_initial_data; CacheSpec starts in a session that asked for them
FetchArgs == {FALSE}

CallHello ==
    /\ stack = <<>>
    /\ stack' = <<HelloFrame>>
    /\ ret' = NoRet
    /\ UNCHANGED <<conn, defaults, _sequence, _command_pending, _initial_data, maps,
                   _callbacks, wire, srv>>

CallFetch ==
    /\ stack = <<>>
    /\ \E events \in FetchArgs : stack' = <<FetchFrame(events)>>
    /\ ret' = NoRet
    /\ UNCHANGED <<conn, defaults, _sequence, _command_pending, _initial_data, maps,
                   _callbacks, wire, srv>>

CallMonitor ==
    /\ stack = <<>>
    /\ Len(_callbacks) < MaxCallbacks
    /\ \E callback \in MayRegister(_callbacks) :
          stack' = <<MonitorFrame(callback)>>
    /\ ret' = NoRet
    /\ UNCHANGED <<conn, defaults, _sequence, _command_pending, _initial_data, maps,
                   _callbacks, wire, srv>>

-----------------------------------------------------------------------------
(* hello *)

\* connect when there is no socket, then issue 'hello'
HelloStart ==
    /\ At("hello", "start")
    /\ _sock' = "connected"
    /\ stack' = Call([Top EXCEPT !.pc = "await"],
                     InvokeFrame("hello",
                                 [htspversion |-> HTSP_PROTO_VERSION,
                                  clientname |-> 1]))
    /\ UNCHANGED <<defaults, _hello, _user, _digest, _sequence, _command_pending,
                   _initial_data, maps, _callbacks, ret, wire, srv>>

\* self._hello = HTSPHello(self, message); return self._hello
HelloReturn ==
    /\ Back("hello", "await", "_invoke_command")
    /\ _hello' = ret.val
    /\ stack' = Below
    /\ ret' = Returned("hello", ret.val, Top)
    /\ UNCHANGED <<defaults, _sock, _user, _digest, _sequence, _command_pending,
                   _initial_data, maps, _callbacks, wire, srv>>

-----------------------------------------------------------------------------
(* _invoke_command and _send *)

BusyNever(pending) == FALSE

\* if self._command_pending: raise Exception("A command is already pending")
Busy(pending) == pending

\* _send: the dict handed to htsmsg.serialize
_send(method, args) ==
    LET a1 == Put(args, "method", method)
        a2 == IF _user # 0 THEN Put(a1, "username", _user) ELSE a1
    IN  IF _digest # 0 THEN Put(a2, "digest", _digest) ELSE a2

UnconnectedNever(sock) == FALSE

\* self._sock.send(...) of _send has no socket to send on
Unconnected(sock) == sock = "None"

\* the first lines of _invoke_command, up to the first _recv
\* args['seq'] and what _send adds are written into the dict the caller
\* passed; a call that passes none writes into the shared default dict
InvokeStart ==
    /\ At("_invoke_command", "start")
    /\ IF Busy(_command_pending)
       THEN /\ Throw("Busy", Top)
            /\ UNCHANGED <<_command_pending, wire, defaults>>
       ELSE LET given == IF Top.args = Default THEN defaults ELSE Top.args
                sent == _send(Top.method, Put(given, "seq", _sequence))
            IN  /\ _sequence < MaxSeq
                /\ _command_pending' = TRUE
                /\ defaults' = IF Top.args = Default THEN sent ELSE defaults
                /\ IF Unconnected(_sock)
                   THEN /\ Throw("AttributeError", Top)
                        /\ UNCHANGED wire
                   ELSE /\ wire' = Append(wire, sent)
                        /\ stack' = SetTop([Top EXCEPT !.pc = "recv",
                                                       !.sent = sent.seq])
                        /\ UNCHANGED ret
    /\ UNCHANGED <<conn, _sequence, _initial_data, maps, _callbacks, srv>>

HoldFront(queue, message) == <<message>> \o queue

\* notify_queue.append(message)
Hold(queue, message) == Append(queue, message)

\* 'seq' in message
Tagged(message) == "seq" \in DOMAIN message

OutOfSequenceNever(message, sequence) == FALSE

\* message['seq'] != self._sequence
OutOfSequence(message, sequence) == message.seq # sequence

AdvanceNot(sequence) == sequence

\* self._sequence += 1
Advance(sequence) == sequence + 1

\* message = self._recv(): a message without 'seq' is held and the next one
\* awaited; the first message with 'seq' is the reply or is out of sequence
InvokeRecv ==
    /\ At("_invoke_command", "recv")
    /\ \E message \in PushTo(srv, Top) \cup Answers(srv, Top, _sequence) :
          IF ~Tagged(message)
          THEN /\ Len(Top.notify_queue) < MaxQueue
               /\ stack' = SetTop([Top EXCEPT
                     !.notify_queue = Hold(@, message),
                     !.arrived = IF "seq" \in DOMAIN message THEN @
                                 ELSE Append(@, message)])
               /\ UNCHANGED <<_sequence, _command_pending, ret>>
          ELSE LET frame == [Top EXCEPT
                     !.message = message,
                     !.tagged = IF "seq" \in DOMAIN message
                                THEN Append(@, message) ELSE @]
               IN  IF OutOfSequence(message, _sequence)
                   THEN /\ Throw("OutOfSequence", frame)
                        /\ UNCHANGED <<_sequence, _command_pending>>
                   ELSE /\ _sequence' = Advance(_sequence)
                        /\ _command_pending' = FALSE
                        /\ stack' = SetTop([frame EXCEPT !.pc = "drain"])
                        /\ UNCHANGED ret
    /\ UNCHANGED <<conn, defaults, _initial_data, maps, _callbacks, wire, srv>>

DrainingNever(frame) == FALSE

\* the for loop over notify_queue has a next message
Draining(frame) == frame.i <= Len(frame.notify_queue)

\* n = self._handleMessage(queued_message); self._notify(queued_message, n)
InvokeDrain ==
    /\ At("_invoke_command", "drain")
    /\ Draining(Top)
    /\ LET message == Top.notify_queue[Top.i]
           r == _handleMessage(Cache, message)
           frame == [Top EXCEPT !.applied = Append(@, message)]
       IN  IF r.err # "none"
           THEN /\ Throw(r.err, Top)
                /\ UNCHANGED <<maps, _initial_data>>
           ELSE /\ SetCache(r.c)
                /\ IF "method" \notin DOMAIN message
                   THEN Throw("KeyError", NotifyFrame(message, r.n))
                   ELSE /\ stack' = Call([frame EXCEPT !.pc = "await_notify"],
                                         NotifyFrame(message, r.n))
                        /\ UNCHANGED ret
    /\ UNCHANGED <<conn, defaults, _sequence, _command_pending, _callbacks, wire, srv>>

\* _notify has returned: the for loop moves on
InvokeNotified ==
    /\ Back("_invoke_command", "await_notify", "_notify")
    /\ stack' = SetTop([Top EXCEPT !.pc = "drain", !.i = @ + 1,
                                   !.notified = Append(@, ret.frame.message)])
    /\ ret' = NoRet
    /\ UNCHANGED <<conn, defaults, _sequence, _command_pending, _initial_data, maps,
                   _callbacks, wire, srv>>

\* return message
InvokeReturn ==
    /\ At("_invoke_command", "drain")
    /\ ~Draining(Top)
    /\ stack' = Below
    /\ ret' = Returned("_invoke_command", Top.message, Top)
    /\ UNCHANGED <<conn, defaults, _sequence, _command_pending, _initial_data, maps,
                   _callbacks, wire, srv>>

-----------------------------------------------------------------------------
(* _notify *)

\* the for loop over self._callbacks has a next callback
Iterating(frame, callbacks) == frame.k <= Len(callbacks)

\* the callback the list iterator yields at its k-th step
CallbackAt(callbacks, k) == callbacks[k]

\* callback(method, notification): an observer that prints reads the
\* notification's properties, and asks _get_event for the events of a
\* channel before it formats them
NotifyCallback ==
    /\ At("_notify", "loop")
    /\ Iterating(Top, _callbacks)
    /\ LET callback == CallbackAt(_callbacks, Top.k)
           method == Top.message.method
           after == AfterCallback(_callbacks, callback, method)
           asks == Asks(method, Top.notification)
           frame == [Top EXCEPT
                 !.k = @ + 1,
                 !.invoked = Append(@, [callback |-> callback,
                                        method |-> method,
                                        notification |-> Top.notification]),
                 !.changed = @ \/ after # _callbacks,
                 !.reads = <<>>]
       IN  IF Raises(callback, method)
           THEN /\ Throw("ObserverError", frame)
                /\ UNCHANGED _callbacks
           ELSE IF Prints(callback, method, Top.notification)
           THEN /\ IF StrReads(method, Top.notification) # "none"
                   THEN Throw(StrReads(method, Top.notification), frame)
                   ELSE IF asks # <<>>
                   THEN /\ stack' = Call([frame EXCEPT
                                             !.pc = "await_callback"],
                                         OpFrame("_get_event", asks[1]))
                        /\ UNCHANGED ret
                   ELSE /\ stack' = SetTop(frame)
                        /\ UNCHANGED ret
                /\ UNCHANGED _callbacks
           ELSE /\ _callbacks' = after
                /\ stack' = SetTop(frame)
                /\ UNCHANGED ret
    /\ UNCHANGED <<conn, defaults, _sequence, _command_pending, _initial_data, maps,
                   wire, srv>>

\* _get_event has returned to the observer that prints: it asks for the
\* channel's next event, or formats the events it has; when the format
\* raises nothing the callback returns and the for loop moves on
NotifyCalledBack ==
    /\ Back("_notify", "await_callback", "_get_event")
    /\ LET asks == Asks(Top.message.method, Top.notification)
           frame == [Top EXCEPT !.reads = Append(@, ret.val)]
       IN  IF Len(frame.reads) < Len(asks)
           THEN /\ stack' = Call(frame,
                                 OpFrame("_get_event",
                                         asks[Len(frame.reads) + 1]))
                /\ ret' = NoRet
           ELSE IF Formats(frame.reads) # "none"
           THEN Throw(Formats(frame.reads), frame)
           ELSE /\ stack' = SetTop([frame EXCEPT !.pc = "loop"])
                /\ ret' = NoRet
    /\ UNCHANGED <<conn, defaults, _sequence, _command_pending, _initial_data,
                   maps, _callbacks, wire, srv>>

NotifyReturn ==
    /\ At("_notify", "loop")
    /\ ~Iterating(Top, _callbacks)
    /\ stack' = Below
    /\ ret' = Returned("_notify", None, Top)
    /\ UNCHANGED <<conn, defaults, _sequence, _command_pending, _initial_data, maps,
                   _callbacks, wire, srv>>

-----------------------------------------------------------------------------
(* fetch_initial_data, with _check_connection and _enable_async_metadata *)

EnableFrame(events) ==
    InvokeFrame("enableAsyncMetadata", [epg |-> IF events THEN 1 ELSE 0])

\* self._events = {} if events else None; self._check_connection()
FetchStart ==
    /\ At("fetch_initial_data", "start")
    /\ _events' = IF Top.events THEN [on |-> TRUE, d |-> EmptyMap]
                  ELSE [on |-> FALSE]
    /\ stack' = IF _sock = "None"
                THEN Call([Top EXCEPT !.pc = "await_hello"], HelloFrame)
                ELSE Call([Top EXCEPT !.pc = "await_enable"],
                          EnableFrame(Top.events))
    /\ UNCHANGED <<conn, defaults, _sequence, _command_pending, _initial_data, _tags,
                   _channels, _dvr_entries, _auto_record_entries, _callbacks,
                   ret, wire, srv>>

\* hello() has returned to _check_connection: self._enable_async_metadata(events)
FetchConnected ==
    /\ Back("fetch_initial_data", "await_hello", "hello")
    /\ stack' = Call([Top EXCEPT !.pc = "await_enable"],
                     EnableFrame(Top.events))
    /\ ret' = NoRet
    /\ UNCHANGED <<conn, defaults, _sequence, _command_pending, _initial_data, maps,
                   _callbacks, wire, srv>>

SynchronizingNever(initial_data) == FALSE

\* while not self._initial_data
Synchronizing(initial_data) == ~initial_data

\* the reply to enableAsyncMetadata is dropped; the while loop begins
FetchEnabled ==
    /\ Back("fetch_initial_data", "await_enable", "_invoke_command")
    /\ stack' = SetTop([Top EXCEPT !.pc = "loop",
                                   !.synced = ret.frame.applied])
    /\ ret' = NoRet
    /\ UNCHANGED <<conn, defaults, _sequence, _command_pending, _initial_data, maps,
                   _callbacks, wire, srv>>

\* while not self._initial_data: message = self._recv();
\* self._handleMessage(message)
FetchLoop ==
    /\ At("fetch_initial_data", "loop")
    /\ Synchronizing(_initial_data)
    /\ Len(Top.synced) < MaxSync
    /\ \E message \in PushTo(srv, Top) :
          LET r == _handleMessage(Cache, message)
          IN  IF r.err # "none"
              THEN /\ Throw(r.err, Local(Top, message))
                   /\ UNCHANGED <<maps, _initial_data>>
              ELSE /\ SetCache(r.c)
                   /\ stack' = SetTop([Top EXCEPT
                         !.synced = Append(@, message)])
                   /\ UNCHANGED ret
    /\ UNCHANGED <<conn, defaults, _sequence, _command_pending, _callbacks, wire, srv>>

FetchReturn ==
    /\ At("fetch_initial_data", "loop")
    /\ ~Synchronizing(_initial_data)
    /\ stack' = Below
    /\ ret' = Returned("fetch_initial_data", None, Top)
    /\ UNCHANGED <<conn, defaults, _sequence, _command_pending, _initial_data, maps,
                   _callbacks, wire, srv>>

-----------------------------------------------------------------------------
(* The bulk accessors: tags, channels, recorded, scheduled, failed and      *)
(* auto_record_entries.                                                    *)

Accessors ==
    {"tags", "channels", "recorded", "scheduled", "failed",
     "auto_record_entries"}

\* d.values()
Values(d) == {d[k] : k \in DOMAIN d}

\* entry.state: self._message.get('state', None)
state(entry) == IF "state" \in DOMAIN entry THEN entry.state ELSE "None"

\* what the accessor name returns of the cache
AccessorValue(name) ==
    CASE name = "tags" -> Values(_tags)
      [] name = "channels" -> Values(_channels)
      [] name = "recorded" ->
            {entry \in Values(_dvr_entries) : state(entry) = "completed"}
      [] name = "scheduled" ->
            {entry \in Values(_dvr_entries) :
                state(entry) \in {"scheduled", "recording"}}
      [] name = "failed" ->
            {entry \in Values(_dvr_entries) : state(entry) = "missed"}
      [] name = "auto_record_entries" -> Values(_auto_record_entries)

\* channel.tags: [self._session._tags[tag_id] for tag_id in message['tags']]
ChannelTags(channel) ==
    [j \in 1..Len(channel.tags) |-> _tags[channel.tags[j]]]

\* synced: the messages of the synchronization the call performed
AccessorFrame(name) ==
    [fn |-> name, pc |-> "start", fetched |-> FALSE, synced |-> <<>>]

CallAccessor ==
    /\ stack = <<>>
    /\ \E name \in Accessors : stack' = <<AccessorFrame(name)>>
    /\ ret' = NoRet
    /\ UNCHANGED <<conn, defaults, _sequence, _command_pending, _initial_data, maps,
                   _callbacks, wire, srv>>

\* tags begins with self._check_connection(); every accessor goes on with
\* if not self._initial_data: self.fetch_initial_data()
AccessorStart ==
    /\ stack # <<>>
    /\ Top.fn \in Accessors
    /\ Top.pc = "start"
    /\ stack' = IF Top.fn = "tags" /\ _sock = "None"
                THEN Call([Top EXCEPT !.pc = "await_hello"], HelloFrame)
                ELSE IF ~_initial_data
                     THEN Call([Top EXCEPT !.pc = "await_fetch"],
                               FetchFrame(FALSE))
                     ELSE SetTop([Top EXCEPT !.pc = "return"])
    /\ UNCHANGED <<conn, defaults, _sequence, _command_pending, _initial_data, maps,
                   _callbacks, ret, wire, srv>>

\* hello() has returned to the _check_connection of tags
AccessorConnected ==
    /\ stack # <<>>
    /\ Top.fn \in Accessors
    /\ Back(Top.fn, "await_hello", "hello")
    /\ stack' = IF ~_initial_data
                THEN Call([Top EXCEPT !.pc = "await_fetch"],
                          FetchFrame(FALSE))
                ELSE SetTop([Top EXCEPT !.pc = "return"])
    /\ ret' = NoRet
    /\ UNCHANGED <<conn, defaults, _sequence, _command_pending, _initial_data, maps,
                   _callbacks, wire, srv>>

\* fetch_initial_data() has returned
AccessorFetched ==
    /\ stack # <<>>
    /\ Top.fn \in Accessors
    /\ Back(Top.fn, "await_fetch", "fetch_initial_data")
    /\ stack' = SetTop([Top EXCEPT !.pc = "return", !.fetched = TRUE,
                                   !.synced = ret.frame.synced])
    /\ ret' = NoRet
    /\ UNCHANGED <<conn, defaults, _sequence, _command_pending, _initial_data, maps,
                   _callbacks, wire, srv>>

\* return self._tags.values(), and the like
AccessorReturn ==
    /\ stack # <<>>
    /\ Top.fn \in Accessors
    /\ Top.pc = "return"
    /\ stack' = Below
    /\ ret' = Returned(Top.fn, AccessorValue(Top.fn), Top)
    /\ UNCHANGED <<conn, defaults, _sequence, _command_pending, _initial_data, maps,
                   _callbacks, wire, srv>>

-----------------------------------------------------------------------------
(* The operations that issue one command: diskspace, system_time,          *)
(* _get_events, _get_channel, _get_event, add_dvr_entry, cancel_dvr_entry  *)
(* and authenticate.                                                       *)

Ops ==
    {"diskspace", "system_time", "_get_events", "_get_channel", "_get_event",
     "add_dvr_entry", "cancel_dvr_entry", "authenticate"}

\* the arguments the application calls an operation with: an identifier, a
\* recording made with create_dvr_entry and its setters (one that names no
\* event, one that names an event, one that names an event and no title), a
\* user with or without a password
OpArgs(fn) ==
    CASE fn \in {"diskspace", "system_time"} -> {None}
      [] fn \in {"_get_events", "_get_channel", "_get_event"} -> {1}
      [] fn = "add_dvr_entry" ->
            {[title |-> 1, channel |-> 1, start |-> 1, stop |-> 2],
             [title |-> 1, channel |-> 1, start |-> 1, stop |-> 2,
              eventId |-> 1],
             [eventId |-> 1]}
      [] fn = "cancel_dvr_entry" -> {[id |-> 1]}
      [] fn = "authenticate" ->
            {[user |-> 1, password |-> 1], [user |-> 1, password |-> 0]}

\* the protocol version an operation checks for; 0 when it checks for none
Required(fn) ==
    CASE fn \in {"diskspace", "system_time"} -> 3
      [] fn = "_get_events" -> 4
      [] fn = "_get_channel" -> 14
      [] OTHER -> 0

\* the operation makes sure of the connection before it goes on
Connects(fn) ==
    fn \in {"diskspace", "system_time", "_get_events", "_get_channel",
            "authenticate"}

\* the command an operation issues
Verb(fn) ==
    CASE fn = "diskspace" -> "getDiskSpace"
      [] fn = "system_time" -> "getSysTime"
      [] fn = "_get_events" -> "getEvents"
      [] fn = "_get_channel" -> "getChannel"
      [] fn = "_get_event" -> "getEvent"
      [] fn = "add_dvr_entry" -> "addDvrEntry"
      [] fn = "cancel_dvr_entry" -> "cancelDvrEntry"
      [] fn = "authenticate" -> "authenticate"

\* message.get(key)
Get(message, key) == IF key \in DOMAIN message THEN message[key] ELSE None

\* the error _as_add_dvr_entry_command raises when it reads the event that
\* _get_event has returned for the entry's 'eventId': event.id, and
\* event.title when the entry has no title
ReadsEvent(entry, event) ==
    IF "eventId" \notin DOMAIN event THEN "KeyError"
    ELSE IF "title" \in DOMAIN entry /\ Truthy("title", entry.title)
    THEN "none"
    ELSE IF "title" \notin DOMAIN event THEN "KeyError"
    ELSE "none"

\* entry._as_add_dvr_entry_command(); event is what _get_event has returned
\* when the entry names an event
_as_add_dvr_entry_command(entry, event) ==
    LET retention == IF "retention" \in DOMAIN entry THEN entry.retention
                     ELSE 0
    IN  IF "eventId" \in DOMAIN entry
        THEN [retention |-> retention,
              title |-> IF "title" \in DOMAIN entry
                           /\ Truthy("title", entry.title)
                        THEN entry.title ELSE event.title,
              eventId |-> event.eventId]
        ELSE [retention |-> retention, title |-> Get(entry, "title"),
              channelId |-> Get(entry, "channel"),
              start |-> Get(entry, "start"), stop |-> Get(entry, "stop")]

_as_cancel_dvr_entry_command(entry) == [id |-> entry.id]

\* the args an operation hands to _invoke_command
OpCommand(frame) ==
    CASE frame.fn \in {"diskspace", "system_time", "authenticate"} -> Default
      [] frame.fn \in {"_get_events", "_get_channel"} ->
            [channelId |-> frame.arg]
      [] frame.fn = "_get_event" -> [eventId |-> frame.arg]
      [] frame.fn = "add_dvr_entry" ->
            _as_add_dvr_entry_command(frame.arg, frame.event)
      [] frame.fn = "cancel_dvr_entry" ->
            _as_cancel_dvr_entry_command(frame.arg)

_checkProtocolNever(hello, required_version) == "none"

\* _checkProtocol: the error it raises, "none" when it raises none;
\* protocol_version is self._hello.htspversion
_checkProtocol(hello, required_version) ==
    IF hello = None THEN "AttributeError"
    ELSE IF "htspversion" \notin DOMAIN hello THEN "KeyError"
    ELSE IF hello.htspversion < required_version
         THEN "ProtocolVersionException"
         ELSE "none"

access_deniedNever(message) == FALSE

\* HTSPResponse.access_denied
access_denied(message) ==
    "noaccess" \in DOMAIN message /\ message.noaccess = 1

_check_responseNever(message) == "none"

\* _check_response: the error it raises, "none" when it raises none
_check_response(message) ==
    IF "success" \notin DOMAIN message THEN "KeyError"
    ELSE IF message.success # 0 THEN "none"
    ELSE IF "error" \notin DOMAIN message THEN "KeyError"
    ELSE "RequestError"

\* _htsp_digest: the SHA-1 of password followed by challenge
_htsp_digest(user, passwd, chal) == 10 * passwd + chal

CallOp ==
    /\ stack = <<>>
    /\ \E fn \in Ops : \E arg \in OpArgs(fn) : stack' = <<OpFrame(fn, arg)>>
    /\ ret' = NoRet
    /\ UNCHANGED <<conn, defaults, _sequence, _command_pending, _initial_data,
                   maps, _callbacks, wire, srv>>

\* the operation of frame, sure of its connection, up to its call of
\* _invoke_command: the check of the protocol version, and what
\* authenticate and _get_events do before they send
Proceed(frame) ==
    LET e == IF Required(frame.fn) > 0
             THEN _checkProtocol(_hello, Required(frame.fn))
             ELSE "none"
        invoke ==
            /\ stack' = Call([frame EXCEPT !.pc = "await_invoke"],
                             InvokeFrame(Verb(frame.fn), OpCommand(frame)))
            /\ ret' = NoRet
    IN  IF e # "none"
        THEN Throw(e, frame) /\ UNCHANGED <<_user, _digest>>
        ELSE IF frame.fn = "authenticate"
        THEN /\ _user' = frame.arg.user
             /\ IF frame.arg.password = 0
                THEN invoke /\ UNCHANGED _digest
                ELSE IF _hello = None
                THEN Throw("AttributeError", frame) /\ UNCHANGED _digest
                ELSE IF "challenge" \notin DOMAIN _hello
                THEN Throw("KeyError", frame) /\ UNCHANGED _digest
                ELSE /\ _digest' = _htsp_digest(frame.arg.user,
                                                frame.arg.password,
                                                _hello.challenge)
                     /\ invoke
        ELSE IF frame.fn = "_get_events" /\ _events.on
        THEN /\ IF _events.d = EmptyMap
                THEN /\ stack' = Below
                     /\ ret' = Returned(frame.fn, <<>>, frame)
                ELSE Throw("AttributeError", frame)
             /\ UNCHANGED <<_user, _digest>>
        ELSE invoke /\ UNCHANGED <<_user, _digest>>

\* the first lines of the operation: a cached channel or event is returned,
\* a missing connection is made with hello()
OpStart ==
    /\ stack # <<>>
    /\ Top.fn \in Ops
    /\ Top.pc = "start"
    /\ IF Top.fn = "_get_channel" /\ Top.arg \in DOMAIN _channels
       THEN /\ stack' = Below
            /\ ret' = Returned(Top.fn, _channels[Top.arg], Top)
            /\ UNCHANGED <<_user, _digest>>
       ELSE IF Top.fn = "_get_event" /\ _events.on
       THEN /\ IF Top.arg \in DOMAIN _events.d
               THEN /\ stack' = Below
                    /\ ret' = Returned(Top.fn, _events.d[Top.arg], Top)
               ELSE Throw("KeyError", Top)
            /\ UNCHANGED <<_user, _digest>>
       ELSE IF Connects(Top.fn) /\ _sock = "None"
       THEN /\ stack' = Call([Top EXCEPT !.pc = "await_hello"], HelloFrame)
            /\ UNCHANGED <<ret, _user, _digest>>
       ELSE IF Top.fn = "add_dvr_entry" /\ "eventId" \in DOMAIN Top.arg
       THEN /\ stack' = Call([Top EXCEPT !.pc = "await__get_event"],
                             OpFrame("_get_event", Top.arg.eventId))
            /\ UNCHANGED <<ret, _user, _digest>>
       ELSE Proceed(Top)
    /\ UNCHANGED <<_sock, _hello, defaults, _sequence, _command_pending,
                   _initial_data, maps, _callbacks, wire, srv>>

\* _get_event has returned the event to _as_add_dvr_entry_command, which
\* completes the command that add_dvr_entry hands to _invoke_command
AddEventFetched ==
    /\ Back("add_dvr_entry", "await__get_event", "_get_event")
    /\ IF ReadsEvent(Top.arg, ret.val) # "none"
       THEN Throw(ReadsEvent(Top.arg, ret.val), [Top EXCEPT !.event = ret.val])
       ELSE Proceed([Top EXCEPT !.event = ret.val])
    /\ UNCHANGED <<conn, defaults, _sequence, _command_pending,
                   _initial_data, maps, _callbacks, wire, srv>>

\* hello() has returned to _check_connection
OpConnected ==
    /\ stack # <<>>
    /\ Top.fn \in Ops
    /\ Back(Top.fn, "await_hello", "hello")
    /\ Proceed(Top)
    /\ UNCHANGED <<_sock, _hello, defaults, _sequence, _command_pending,
                   _initial_data, maps, _callbacks, wire, srv>>

\* what the operation of frame makes of the reply message
Outcome(frame, message) ==
    CASE frame.fn \in {"diskspace", "system_time"} -> Done(Cache, message)
      [] frame.fn = "authenticate" ->
            IF access_denied(message)
            THEN Raise(Cache, "AuthenticationFailed")
            ELSE Done(Cache, None)
      [] frame.fn = "_get_channel" -> _handle_channelAdd(Cache, message)
      [] frame.fn = "_get_event" -> _handle_eventAdd(Cache, message)
      [] frame.fn = "_get_events" ->
            IF "events" \notin DOMAIN message THEN Raise(Cache, "KeyError")
            ELSE Done(Cache, message.events)
      [] frame.fn = "add_dvr_entry" ->
            IF _check_response(message) # "none"
            THEN Raise(Cache, _check_response(message))
            ELSE IF "id" \notin DOMAIN message THEN Raise(Cache, "KeyError")
            ELSE IF message.id \notin DOMAIN _dvr_entries
                 THEN Raise(Cache, "KeyError")
                 ELSE Done(Cache, _dvr_entries[message.id])
      [] frame.fn = "cancel_dvr_entry" ->
            IF _check_response(message) # "none"
            THEN Raise(Cache, _check_response(message))
            ELSE Done(Cache, frame.arg)

\* _invoke_command has returned the reply
OpReplied ==
    /\ stack # <<>>
    /\ Top.fn \in Ops
    /\ Back(Top.fn, "await_invoke", "_invoke_command")
    /\ LET message == ret.val
           r == Outcome(Top, message)
       IN  IF r.err # "none"
           THEN /\ Throw(r.err, Local(Top, message))
                /\ UNCHANGED <<maps, _initial_data>>
           ELSE /\ SetCache(r.c)
                /\ stack' = Below
                /\ ret' = Returned(Top.fn, r.n, Local(Top, message))
    /\ UNCHANGED <<conn, defaults, _sequence, _command_pending, _callbacks,
                   wire, srv>>

\* HTSPResponse._timestamp_from_datetime: int(time.mktime(
\* datetime.timetuple())); the time tuple has no microseconds
_timestamp_from_datetime(datetime) == datetime.second

\* the setters of HTSPDVREntry
Setters == {"title", "start", "stop", "channel", "event"}

\* what the application hands to a setter: a title, a time, a channel of the
\* cache, an event
SetterValues(setter) ==
    CASE setter = "title" -> {2}
      [] setter \in {"start", "stop"} -> {[second |-> 3, microsecond |-> 5]}
      [] setter = "channel" -> Values(_channels)
      [] setter = "event" -> {[eventId |-> 1, title |-> 1]}

\* the record of the entry after entry.<setter> = value
Set(message, setter, value) ==
    CASE setter = "title" -> Put(message, "title", value)
      [] setter = "start" ->
            Put(message, "start", _timestamp_from_datetime(value))
      [] setter = "stop" ->
            Put(message, "stop", _timestamp_from_datetime(value))
      [] setter = "channel" -> Put(message, "channel", value.channelId)
      [] setter = "event" -> Put(message, "eventId", value.eventId)

\* the application sets a property of a recording it was given by the
\* session: the object is the one the cache holds
SetEntry ==
    /\ stack = <<>>
    /\ \E id \in DOMAIN _dvr_entries :
          \E setter \in Setters : \E value \in SetterValues(setter) :
             _dvr_entries' =
                 [_dvr_entries EXCEPT ![id] = Set(@, setter, value)]
    /\ UNCHANGED <<conn, defaults, _sequence, _command_pending, _initial_data,
                   _tags, _channels, _events, _auto_record_entries,
                   _callbacks, stack, ret, wire, srv>>

\* the requests another HTSPSession of the process, authenticated as user 2,
\* makes without passing args after its hello: authenticate(2, password) as
\* its request 1, system_time as its request 2
OtherCalls ==
    {[seq |-> 1, method |-> "authenticate"],
     [seq |-> 2, method |-> "getSysTime"]}

\* one such call of the other session: it writes its sequence number, the
\* method and its credentials into the shared default dict and leaves them
OtherSession ==
    /\ stack = <<>>
    /\ \E call \in OtherCalls :
          defaults' = [seq |-> call.seq, method |-> call.method,
                       username |-> 2, digest |-> _htsp_digest(2, 2, 1)]
    /\ UNCHANGED <<conn, _sequence, _command_pending, _initial_data, maps,
                   _callbacks, stack, ret, wire, srv>>

-----------------------------------------------------------------------------
(* monitor *)

\* if not self._initial_data: self.fetch_initial_data()
\* self._callbacks.append(callback)
MonitorStart ==
    /\ At("monitor", "start")
    /\ IF ~_initial_data
       THEN /\ stack' = Call([Top EXCEPT !.pc = "await_fetch"],
                             FetchFrame(FALSE))
            /\ UNCHANGED _callbacks
       ELSE /\ stack' = SetTop([Top EXCEPT !.pc = "recv"])
            /\ _callbacks' = Append(_callbacks, Top.callback)
    /\ UNCHANGED <<conn, defaults, _sequence, _command_pending, _initial_data, maps,
                   ret, wire, srv>>

MonitorFetched ==
    /\ Back("monitor", "await_fetch", "fetch_initial_data")
    /\ stack' = SetTop([Top EXCEPT !.pc = "recv"])
    /\ _callbacks' = Append(_callbacks, Top.callback)
    /\ ret' = NoRet
    /\ UNCHANGED <<conn, defaults, _sequence, _command_pending, _initial_data, maps,
                   wire, srv>>

\* message = self._recv(); n = self._handleMessage(message);
\* self._notify(message, n)
MonitorRecv ==
    /\ At("monitor", "recv")
    /\ \E message \in PushTo(srv, Top) :
          LET r == _handleMessage(Cache, message)
          IN  IF r.err # "none"
              THEN /\ Throw(r.err, Local(Top, message))
                   /\ UNCHANGED <<maps, _initial_data>>
              ELSE /\ SetCache(r.c)
                   /\ IF "method" \notin DOMAIN message
                      THEN Throw("KeyError", NotifyFrame(message, r.n))
                      ELSE /\ stack' = Call([Top EXCEPT !.pc = "await_notify"],
                                            NotifyFrame(message, r.n))
                           /\ UNCHANGED ret
    /\ UNCHANGED <<conn, defaults, _sequence, _command_pending, _callbacks, wire, srv>>

MonitorNotified ==
    /\ Back("monitor", "await_notify", "_notify")
    /\ stack' = SetTop([Top EXCEPT !.pc = "recv"])
    /\ ret' = NoRet
    /\ UNCHANGED <<conn, defaults, _sequence, _command_pending, _initial_data, maps,
                   _callbacks, wire, srv>>

\* except KeyboardInterrupt: self._callbacks.remove(callback)
\* the interrupt arrives anywhere inside monitor's try block: while monitor
\* waits in _recv, while _notify or an observer runs, or while a command an
\* observer has issued awaits its reply; every frame above monitor is left.
\* Where the callback is registered no more, remove raises ValueError in
\* monitor's own frame
MonitorInterrupt ==
    /\ InTry
    /\ stack' = <<>>
    /\ IF IndexOf(_callbacks, stack[1].callback) = 0
       THEN /\ ret' = [kind |-> "error", fn |-> "monitor", val |-> None,
                       err |-> "ValueError", frame |-> stack[1]]
            /\ UNCHANGED _callbacks
       ELSE /\ ret' = Returned("monitor", None, Top)
            /\ _callbacks' = Remove(_callbacks, stack[1].callback)
    /\ UNCHANGED <<conn, defaults, _sequence, _command_pending, _initial_data, maps,
                   wire, srv>>

-----------------------------------------------------------------------------
(* The transport fails in _recv. *)

RecvFails ==
    /\ stack # <<>>
    /\ \/ Top.pc = "recv"
       \/ Top.fn = "fetch_initial_data" /\ Top.pc = "loop" /\ ~_initial_data
    /\ Throw("TransportError", Top)
    /\ UNCHANGED <<conn, defaults, _sequence, _command_pending, _initial_data, maps,
                   _callbacks, wire, srv>>

-----------------------------------------------------------------------------
(* The session after __init__, and its steps. *)

Fresh ==
    /\ _sock = "None"
    /\ _hello = None
    /\ _user = 0
    /\ _digest = 0
    /\ _sequence = 0
    /\ _command_pending = FALSE
    /\ _initial_data = FALSE
    /\ _tags = EmptyMap
    /\ _channels = EmptyMap
    /\ _events = [on |-> FALSE]
    /\ _dvr_entries = EmptyMap
    /\ _auto_record_entries = EmptyMap
    /\ _callbacks = <<>>
    /\ stack = <<>>
    /\ ret = NoRet
    /\ wire = <<>>
    /\ defaults = EmptyMap

Init == Fresh /\ srv = "session"

Next ==
    \/ CallHello
    \/ CallFetch
    \/ CallMonitor
    \/ HelloStart
    \/ HelloReturn
    \/ InvokeStart
    \/ InvokeRecv
    \/ InvokeDrain
    \/ InvokeNotified
    \/ InvokeReturn
    \/ NotifyCallback
    \/ NotifyReturn
    \/ FetchStart
    \/ FetchConnected
    \/ FetchEnabled
    \/ FetchLoop
    \/ FetchReturn
    \/ MonitorStart
    \/ MonitorFetched
    \/ MonitorRecv
    \/ MonitorNotified
    \/ MonitorInterrupt
    \/ RecvFails

Spec == Init /\ [][Next]_vars

-----------------------------------------------------------------------------
(* A fresh session whose application reads the bulk accessors, and a       *)
(* server that sends the records of the bulk synchronization when it is    *)
(* asked for them.                                                         *)

SyncInit == Fresh /\ srv = "sync"

SyncNext ==
    \/ CallAccessor
    \/ AccessorStart
    \/ AccessorConnected
    \/ AccessorFetched
    \/ AccessorReturn
    \/ HelloStart
    \/ HelloReturn
    \/ InvokeStart
    \/ InvokeRecv
    \/ InvokeDrain
    \/ InvokeNotified
    \/ InvokeReturn
    \/ NotifyReturn
    \/ FetchStart
    \/ FetchConnected
    \/ FetchEnabled
    \/ FetchLoop
    \/ FetchReturn

SyncSpec == SyncInit /\ [][SyncNext]_vars

\* the session runs on: a call that can take its next step takes it
SyncFairSpec == SyncSpec /\ WF_vars(SyncNext)

-----------------------------------------------------------------------------
(* A fresh session whose application issues commands and sets properties   *)
(* of the recordings it was given, and a server that announces one of      *)
(* several protocol versions and answers each command with success or      *)
(* with failure.                                                           *)

CommandInit == Fresh /\ srv = "htsp"

CommandNext ==
    \/ CallOp
    \/ OpStart
    \/ OpConnected
    \/ AddEventFetched
    \/ OpReplied
    \/ SetEntry
    \/ OtherSession
    \/ RecvFails
    \/ HelloStart
    \/ HelloReturn
    \/ InvokeStart
    \/ InvokeRecv
    \/ InvokeDrain
    \/ InvokeNotified
    \/ InvokeReturn
    \/ NotifyReturn

CommandSpec == CommandInit /\ [][CommandNext]_vars

-----------------------------------------------------------------------------
(* The monitor loop of a synchronized session whose server sends every     *)
(* push about one entity kind: the session has said hello, has fetched its *)
(* initial data with or without EPG events and was told the                *)
(* synchronization was complete, and monitor(obs) waits in _recv.          *)

CacheInit ==
    /\ srv \in DOMAIN Kinds
    /\ _sock = "connected"
    /\ _hello = Reply(0)
    /\ _user = 0
    /\ _digest = 0
    /\ _sequence = 2
    /\ _command_pending = FALSE
    /\ _initial_data = TRUE
    /\ _tags = EmptyMap
    /\ _channels = EmptyMap
    /\ _dvr_entries = EmptyMap
    /\ _auto_record_entries = EmptyMap
    /\ _callbacks = <<"obs">>
    /\ stack = <<[MonitorFrame("obs") EXCEPT !.pc = "recv"]>>
    /\ ret = NoRet
    /\ defaults = EmptyMap
    /\ \E events \in BOOLEAN :
          /\ _events = IF events THEN [on |-> TRUE, d |-> EmptyMap]
                       ELSE [on |-> FALSE]
          /\ wire = <<[method |-> "hello", seq |-> 0,
                       htspversion |-> HTSP_PROTO_VERSION, clientname |-> 1],
                      [method |-> "enableAsyncMetadata", seq |-> 1,
                       epg |-> IF events THEN 1 ELSE 0]>>

CacheNext ==
    \/ MonitorRecv
    \/ NotifyCallback
    \/ NotifyReturn
    \/ MonitorNotified

CacheSpec == CacheInit /\ [][CacheNext]_vars

-----------------------------------------------------------------------------
(* A synchronized session whose application calls monitor() with observers *)
(* that record, quit or raise, interrupts it or lets it fail, and calls it *)
(* again.                                                                  *)

\* the application calls monitor(callback) of the idle session
CallMonitorWith ==
    /\ stack = <<>>
    /\ Len(_callbacks) < MaxCallbacks
    /\ \E callback \in MayRegister(_callbacks) \cup {"raiser"} :
          stack' = <<MonitorFrame(callback)>>
    /\ ret' = NoRet
    /\ UNCHANGED <<conn, defaults, _sequence, _command_pending, _initial_data,
                   maps, _callbacks, wire, srv>>

MonitorInit ==
    /\ srv = "session"
    /\ _sock = "connected"
    /\ _hello = Reply(0)
    /\ _user = 0
    /\ _digest = 0
    /\ _sequence = 2
    /\ _command_pending = FALSE
    /\ _initial_data = TRUE
    /\ _tags = EmptyMap
    /\ _channels = EmptyMap
    /\ _events = [on |-> FALSE]
    /\ _dvr_entries = EmptyMap
    /\ _auto_record_entries = EmptyMap
    /\ _callbacks = <<>>
    /\ stack = <<>>
    /\ ret = NoRet
    /\ defaults = EmptyMap
    /\ wire = <<[method |-> "hello", seq |-> 0,
                 htspversion |-> HTSP_PROTO_VERSION, clientname |-> 1],
                [method |-> "enableAsyncMetadata", seq |-> 1, epg |-> 0]>>

MonitorNext ==
    \/ CallMonitorWith
    \/ MonitorStart
    \/ MonitorRecv
    \/ NotifyCallback
    \/ NotifyReturn
    \/ MonitorNotified
    \/ MonitorInterrupt
    \/ RecvFails

MonitorSpec == MonitorInit /\ [][MonitorNext]_vars

-----------------------------------------------------------------------------
(* A synchronized session without an event map whose application calls     *)
(* monitor() with an observer that prints and with one that records, and   *)
(* a server that pushes channels and recordings and answers getEvent.      *)

\* the application calls monitor(callback) of the idle session
CallMonitorPrinting ==
    /\ stack = <<>>
    /\ Len(_callbacks) < MaxCallbacks
    /\ \E callback \in {"printer", "obs"} :
          /\ \A j \in 1..Len(_callbacks) : _callbacks[j] # callback
          /\ stack' = <<MonitorFrame(callback)>>
    /\ ret' = NoRet
    /\ UNCHANGED <<conn, defaults, _sequence, _command_pending, _initial_data,
                   maps, _callbacks, wire, srv>>

PrinterInit ==
    /\ srv = "print"
    /\ _sock = "connected"
    /\ _hello = Reply(0)
    /\ _user = 0
    /\ _digest = 0
    /\ _sequence = 2
    /\ _command_pending = FALSE
    /\ _initial_data = TRUE
    /\ _tags = EmptyMap
    /\ _channels = EmptyMap
    /\ _events = [on |-> FALSE]
    /\ _dvr_entries = EmptyMap
    /\ _auto_record_entries = EmptyMap
    /\ _callbacks = <<>>
    /\ stack = <<>>
    /\ ret = NoRet
    /\ defaults = EmptyMap
    /\ wire = <<[method |-> "hello", seq |-> 0,
                 htspversion |-> HTSP_PROTO_VERSION, clientname |-> 1],
                [method |-> "enableAsyncMetadata", seq |-> 1, epg |-> 0]>>

PrinterNext ==
    \/ CallMonitorPrinting
    \/ MonitorStart
    \/ MonitorRecv
    \/ MonitorNotified
    \/ MonitorInterrupt
    \/ RecvFails
    \/ NotifyCallback
    \/ NotifyCalledBack
    \/ NotifyReturn
    \/ OpStart
    \/ OpReplied
    \/ InvokeStart
    \/ InvokeRecv
    \/ InvokeDrain
    \/ InvokeNotified
    \/ InvokeReturn

PrinterSpec == PrinterInit /\ [][PrinterNext]_vars

-----------------------------------------------------------------------------
(* What the properties below speak of. *)

\* the push verbs with a handler that works on a cache map
Verbs ==
    [tagAdd |-> [map |-> "tags", idkey |-> "tagId", op |-> "add"],
     tagUpdate |-> [map |-> "tags", idkey |-> "tagId", op |-> "update"],
     channelAdd |-> [map |-> "channels", idkey |-> "channelId", op |-> "add"],
     channelUpdate |->
         [map |-> "channels", idkey |-> "channelId", op |-> "update"],
     eventAdd |-> [map |-> "events", idkey |-> "eventId", op |-> "add"],
     eventDelete |-> [map |-> "events", idkey |-> "eventId", op |-> "delete"],
     dvrEntryAdd |-> [map |-> "dvr", idkey |-> "id", op |-> "add"],
     dvrEntryUpdate |-> [map |-> "dvr", idkey |-> "id", op |-> "update"],
     dvrEntryDelete |-> [map |-> "dvr", idkey |-> "id", op |-> "delete"],
     autorecEntryAdd |-> [map |-> "autorec", idkey |-> "id", op |-> "add"],
     autorecEntryUpdate |->
         [map |-> "autorec", idkey |-> "id", op |-> "update"]]

\* message is a push of kind op ("add", "update" or "delete")
IsVerb(message, op) ==
    /\ "method" \in DOMAIN message
    /\ message.method \in DOMAIN Verbs
    /\ Verbs[message.method].op = op

\* the records of one cache map; no event map holds no record
MapOf(c, map) ==
    IF map = "events" THEN (IF c.events.on THEN c.events.d ELSE EmptyMap)
    ELSE c[map]

IsPrefix(s, t) == Len(s) <= Len(t) /\ SubSeq(t, 1, Len(s)) = s

InvokeReturned == ret.kind = "value" /\ ret.fn = "_invoke_command"

NotifyReturned == ret.kind = "value" /\ ret.fn = "_notify"

-----------------------------------------------------------------------------
(* C1..C4: the request/response correlator. *)

\* C1: the messages without 'seq' that a pending _invoke_command receives
\* before its reply are applied to the cache and fanned out in the order of
\* their arrival, and all of them have been when the reply is handed back.
C1_HeldAppliedBeforeReply ==
    /\ \A j \in 1..Len(stack) :
          stack[j].fn = "_invoke_command" =>
             /\ IsPrefix(stack[j].applied, stack[j].arrived)
             /\ IsPrefix(stack[j].notified, stack[j].applied)
             /\ stack[j].pc = "recv" => stack[j].applied = <<>>
    /\ InvokeReturned =>
          /\ ret.frame.applied = ret.frame.arrived
          /\ ret.frame.notified = ret.frame.arrived

\* two different pushes were held, applied, and the reply was handed back
C1_Witness ==
    /\ InvokeReturned
    /\ Len(ret.frame.arrived) = 2
    /\ ret.frame.arrived[1].method = "dvrEntryAdd"
    /\ ret.frame.arrived[2].method = "dvrEntryUpdate"
    /\ 1 \in DOMAIN _dvr_entries
    /\ _dvr_entries[1].title = 2

\* C2: the requests on the wire carry the tags 0, 1, 2, ... in send order,
\* so no tag is used twice; the counter is the number of requests sent, less
\* the one that has no matching reply yet or never got one.
C2_SequenceTags ==
    /\ \A j \in 1..Len(wire) : wire[j].seq = j - 1
    /\ _sequence <= Len(wire)
    /\ Len(wire) <= _sequence + 1
    /\ ~_command_pending => _sequence = Len(wire)

\* three exchanges were completed, the last with pushes interleaved
C2_Witness ==
    /\ InvokeReturned
    /\ Len(wire) = 3
    /\ _sequence = 3
    /\ ret.frame.sent = 2
    /\ Len(ret.frame.arrived) = 2

\* C3: _invoke_command called while a request is pending raises the Busy
\* error, sends nothing, and leaves the counter and the pending flag alone.
C3_BusyRejected ==
    [][(At("_invoke_command", "start") /\ _command_pending) =>
          /\ ret'.kind # "none"
          /\ ret'.err = "Busy"
          /\ stack' = <<>>
          /\ wire' = wire
          /\ _sequence' = _sequence
          /\ _command_pending' = _command_pending]_vars

\* a call was refused as Busy after an exchange had gone out of sequence
C3_Witness ==
    /\ ret.kind = "error"
    /\ ret.err = "Busy"
    /\ _command_pending
    /\ Len(wire) = _sequence + 1
    /\ stack = <<>>

\* C4: _invoke_command reads no further than the first message with 'seq';
\* it returns that message, and only when its tag is the tag sent; when the
\* tag differs the call fails as out of sequence and returns no reply.
C4_OnlyMatchingReply ==
    /\ \A j \in 1..Len(stack) :
          stack[j].fn = "_invoke_command" =>
             /\ Len(stack[j].tagged) <= 1
             /\ stack[j].tagged # <<>> =>
                   /\ stack[j].tagged[1].seq = stack[j].sent
                   /\ stack[j].pc # "recv"
    /\ InvokeReturned =>
          /\ ret.frame.tagged = <<ret.val>>
          /\ ret.val.seq = ret.frame.sent
    /\ (/\ ret.kind # "none"
        /\ ret.frame.fn = "_invoke_command"
        /\ ret.frame.tagged # <<>>
        /\ ret.frame.tagged[1].seq # ret.frame.sent) =>
          /\ ret.kind = "error"
          /\ ret.err = "OutOfSequence"
          /\ ret.val = None

\* a reply with another tag arrived after a held push, and the call failed
C4_Witness ==
    /\ ret.kind = "error"
    /\ ret.err = "OutOfSequence"
    /\ ret.frame.sent = 1
    /\ ret.frame.tagged = <<Reply(2)>>
    /\ Len(ret.frame.arrived) = 1
    /\ _sequence = 1

-----------------------------------------------------------------------------
(* C5..C8: the cache under add, update and delete notifications, stated    *)
(* about the step of the monitor loop that receives and applies a message. *)

\* the message the receive loop on top of the stack has just applied: the
\* one it hands to _notify, or the one whose handler raised
Dispatched ==
    IF stack # <<>> /\ Top.fn = "_notify" /\ Top.invoked = <<>>
    THEN Top.message
    ELSE IF stack = <<>> /\ ret.kind # "none" /\ ret.fn = "monitor"
            /\ "message" \in DOMAIN ret.frame
         THEN ret.frame.message
         ELSE None

\* the handler of that message returned without an error
Handled == stack # <<>> /\ Top.fn = "_notify" /\ Top.invoked = <<>>

\* what the handler returned
Yielded == IF Handled THEN Top.notification ELSE None

\* this step is the monitor loop applying a push of kind op
Applies(op) == At("monitor", "recv") /\ IsVerb(Dispatched', op)

\* every map but map is left as it was, and so is the completion flag
OthersKept(map) ==
    /\ \A other \in {"tags", "channels", "events", "dvr", "autorec"} \ {map} :
          MapOf(Cache', other) = MapOf(Cache, other)
    /\ _events'.on = _events.on
    /\ _initial_data' = _initial_data

\* every record of map but the one of id is left as it was
RestKept(map, id) ==
    \A other \in (DOMAIN MapOf(Cache, map) \cup DOMAIN MapOf(Cache', map))
                 \ {id} :
        /\ other \in DOMAIN MapOf(Cache, map)
        /\ other \in DOMAIN MapOf(Cache', map)
        /\ MapOf(Cache', map)[other] = MapOf(Cache, map)[other]

\* C5: an update (tagUpdate, channelUpdate, dvrEntryUpdate,
\* autorecEntryUpdate) for a cached identifier leaves the record with every
\* field the message carries with a non-empty value overwritten, and every
\* other field as it was; the merged record is what the handler returns.
C5_UpdateMerges ==
    [][ Applies("update") =>
          LET message == Dispatched'
              v == Verbs[message.method]
              id == message[v.idkey]
          IN  id \in DOMAIN MapOf(Cache, v.map) =>
                LET old == MapOf(Cache, v.map)[id]
                IN  /\ Handled'
                    /\ id \in DOMAIN MapOf(Cache', v.map)
                    /\ LET new == MapOf(Cache', v.map)[id]
                       IN  /\ Yielded' = new
                           /\ DOMAIN new = DOMAIN old \cup
                                 {key \in DOMAIN message :
                                     Truthy(key, message[key])}
                           /\ \A key \in DOMAIN new :
                                 new[key] =
                                   IF key \in DOMAIN message
                                      /\ Truthy(key, message[key])
                                   THEN message[key]
                                   ELSE old[key]
                    /\ RestKept(v.map, id)
                    /\ OthersKept(v.map) ]_vars

\* a dvrEntryUpdate with a new title and an empty retention was merged into
\* an entry that had both: the title is the new one, the retention the old
C5_Witness ==
    /\ Handled
    /\ Top.message.method = "dvrEntryUpdate"
    /\ DOMAIN Top.message = {"method", "id", "title", "retention"}
    /\ Top.message.title = 2
    /\ Top.message.retention = 0
    /\ "retention" \in DOMAIN Top.notification
    /\ Top.notification.title = 2
    /\ Top.notification.retention = 1
    /\ _dvr_entries[Top.message.id] = Top.notification

\* C6 as claimed: after any add (tagAdd, channelAdd, eventAdd, dvrEntryAdd,
\* autorecEntryAdd) the record cached under the identifier is the one built
\* from the message, whatever was cached before.
C6_AddReplaces ==
    [][ Applies("add") =>
          LET message == Dispatched'
              v == Verbs[message.method]
              id == message[v.idkey]
          IN  /\ Handled'
              /\ id \in DOMAIN MapOf(Cache', v.map)
              /\ MapOf(Cache', v.map)[id] = message ]_vars

\* the add pushes of the server the session talks to
Adds == {message \in Push(srv) : IsVerb(message, "add")}

\* what the handler of the add push message does to the cache c, at
\* whichever call of _handleMessage applies it: the record under the
\* identifier becomes the one built from the message and nothing else
\* changes, or, for an eventAdd where no event map is kept, nothing changes
Stores(c, message) ==
    LET r == _handleMessage(c, message)
        v == Verbs[message.method]
        id == message[v.idkey]
    IN  /\ r.err = "none"
        /\ IF v.map = "events" /\ ~c.events.on
           THEN r.c = c
           ELSE /\ id \in DOMAIN MapOf(r.c, v.map)
                /\ MapOf(r.c, v.map)[id] = message
                /\ \A other \in DOMAIN MapOf(c, v.map) \ {id} :
                      /\ other \in DOMAIN MapOf(r.c, v.map)
                      /\ MapOf(r.c, v.map)[other] = MapOf(c, v.map)[other]
                /\ DOMAIN MapOf(r.c, v.map) = DOMAIN MapOf(c, v.map) \cup {id}

\* C6 as the code has it: after a tagAdd, channelAdd, dvrEntryAdd or
\* autorecEntryAdd for an identifier, and after an eventAdd of a session
\* that keeps an event map, the cache holds one record for the identifier
\* and it carries exactly the fields of the message, whatever adds, updates
\* or deletes for the identifier came before: no field of an overwritten or
\* deleted record survives.  An eventAdd of a session that keeps no event
\* map caches nothing.  The first conjunct says it of the handler in every
\* cache the session reaches, the second of the steps that apply an add.
C6_AddReplacesWhereCached ==
    /\ [](\A message \in Adds : Stores(Cache, message))
    /\ [][ Applies("add") =>
             LET message == Dispatched'
                 v == Verbs[message.method]
                 id == message[v.idkey]
             IN  IF v.map = "events" /\ ~_events.on
                 THEN maps' = maps /\ _initial_data' = _initial_data
                 ELSE /\ id \in DOMAIN MapOf(Cache', v.map)
                      /\ MapOf(Cache', v.map)[id] = message
                      /\ RestKept(v.map, id)
                      /\ OthersKept(v.map) ]_vars

\* a dvrEntryAdd for identifier 1 that carries a title only was applied
\* while an entry with a retention was cached under 1, another entry being
\* cached under 2: the entry under 1 is now the message, with no retention
\* left in it, and the entry under 2 still has its own
C6_Witness ==
    /\ Handled
    /\ Top.message.method = "dvrEntryAdd"
    /\ DOMAIN Top.message = {"method", "id", "title"}
    /\ Top.message.id = 1
    /\ 1 \in DOMAIN Top.before.dvr
    /\ "retention" \in DOMAIN Top.before.dvr[1]
    /\ _dvr_entries[1] = Top.message
    /\ "retention" \notin DOMAIN _dvr_entries[1]
    /\ 2 \in DOMAIN _dvr_entries
    /\ "retention" \in DOMAIN _dvr_entries[2]

\* C7: an update for an identifier that is not cached fails with a lookup
\* error that leaves the dispatcher and reaches the receive loop, and the
\* cache is as it was.
C7_UpdateOfAbsentFails ==
    [][ Applies("update") =>
          LET message == Dispatched'
              v == Verbs[message.method]
              id == message[v.idkey]
          IN  id \notin DOMAIN MapOf(Cache, v.map) =>
                /\ ~Handled'
                /\ stack' = <<>>
                /\ ret'.err = "KeyError"
                /\ ret'.frame.fn = "monitor"
                /\ maps' = maps
                /\ _initial_data' = _initial_data ]_vars

\* a tagUpdate for tag 1 reached a cache that holds tag 2 only: the monitor
\* loop ended on the lookup error and tag 1 is still not cached
C7_Witness ==
    /\ stack = <<>>
    /\ ret.err = "KeyError"
    /\ ret.fn = "monitor"
    /\ Dispatched.method = "tagUpdate"
    /\ Dispatched.tagId = 1
    /\ DOMAIN _tags = {2}

\* C8: a delete (eventDelete, dvrEntryDelete) for a cached identifier
\* removes the record and returns it; for an identifier that is not cached
\* it raises nothing, returns no entity and leaves the cache as it was.
C8_DeleteRemovesOrIgnores ==
    [][ Applies("delete") =>
          LET message == Dispatched'
              v == Verbs[message.method]
              id == message[v.idkey]
              d == MapOf(Cache, v.map)
          IN  /\ Handled'
              /\ IF id \in DOMAIN d
                 THEN /\ Yielded' = d[id]
                      /\ id \notin DOMAIN MapOf(Cache', v.map)
                      /\ RestKept(v.map, id)
                      /\ OthersKept(v.map)
                 ELSE /\ Yielded' = None
                      /\ maps' = maps
                      /\ _initial_data' = _initial_data ]_vars

\* a dvrEntryDelete removed entry 1, which had been updated, and returned it;
\* entry 2 stays cached
C8_Witness ==
    /\ Handled
    /\ Top.message.method = "dvrEntryDelete"
    /\ Top.message.id = 1
    /\ Top.notification # None
    /\ Top.notification.method = "dvrEntryUpdate"
    /\ DOMAIN _dvr_entries = {2}

\* a delete for an identifier that is not cached was received and the monitor
\* loop goes on: no entity was returned and the other entry stays cached
C8_WitnessAbsent ==
    /\ Handled
    /\ Top.message.method = "eventDelete"
    /\ Top.message.eventId = 1
    /\ Top.notification = None
    /\ _events.on
    /\ DOMAIN _events.d = {2}

-----------------------------------------------------------------------------
(* C9, C10: the fan-out to the observers. *)

\* what a fan-out that calls every registration once, in the order of the
\* list, has told: (verb, resulting entity) to each
Told(frame) ==
    [j \in 1..Len(frame.registered) |->
        [callback |-> frame.registered[j],
         method |-> frame.message.method,
         notification |-> frame.notification]]

\* the cache c holds what message asked for, and notification is the entity
Reflects(c, message, notification) ==
    IF message.method = "initialSyncCompleted" THEN c.initial_data
    ELSE IF message.method \notin DOMAIN Verbs THEN notification = None
    ELSE LET v == Verbs[message.method]
             d == MapOf(c, v.map)
             id == message[v.idkey]
         IN  CASE v.op = "add" ->
                    /\ notification = message
                    /\ (v.map # "events" \/ c.events.on) =>
                          (id \in DOMAIN d /\ d[id] = message)
               [] v.op = "update" -> id \in DOMAIN d /\ d[id] = notification
               [] v.op = "delete" -> id \notin DOMAIN d

\* C9 as claimed: when _notify begins, the cache mutation of the message has
\* been applied; the fan-out calls every observer registered when it began
\* exactly once with (verb, resulting entity), in the order of registration.
C9_MutationThenObservers ==
    /\ (stack # <<>> /\ Top.fn = "_notify" /\ Top.invoked = <<>>) =>
          /\ Reflects(Cache, Top.message, Top.notification)
          /\ Len(stack) > 1
          /\ stack[Len(stack) - 1].fn = "_invoke_command" =>
                /\ stack[Len(stack) - 1].applied # <<>>
                /\ stack[Len(stack) - 1].applied[
                      Len(stack[Len(stack) - 1].applied)] = Top.message
    /\ \A j \in 1..Len(stack) :
          stack[j].fn = "_notify" =>
             /\ stack[j].k = Len(stack[j].invoked) + 1
             /\ Len(stack[j].invoked) <= Len(stack[j].registered)
             /\ stack[j].invoked =
                   SubSeq(Told(stack[j]), 1, Len(stack[j].invoked))
    /\ NotifyReturned => ret.frame.invoked = Told(ret.frame)

\* what holds of every fan-out during which no callback changes the list of
\* observers: mutation first, then every observer once, in order
MutationThenObserversOfFixedList ==
    /\ (stack # <<>> /\ Top.fn = "_notify" /\ Top.invoked = <<>>) =>
          Reflects(Cache, Top.message, Top.notification)
    /\ (NotifyReturned /\ ~ret.frame.changed) =>
          ret.frame.invoked = Told(ret.frame)

\* the registrations of a list that are not the observer that quits
NotQuitter(x) == x # "quitter"

Called(frame) == [j \in 1..Len(frame.invoked) |-> frame.invoked[j].callback]

\* C10 as claimed: a fan-out during which an observer removed itself from
\* the list has still called every other observer that was registered when
\* it began, exactly once and in the order of registration.
C10_RemovalInsideCallback ==
    (NotifyReturned /\ ret.frame.changed) =>
        SelectSeq(Called(ret.frame), NotQuitter) =
           SelectSeq(ret.frame.registered, NotQuitter)

-----------------------------------------------------------------------------
(* C11: the bulk accessors of a session that is not synchronized. *)

\* the add verb and the states of the entities an accessor returns
Wanted ==
    [tags |-> [verb |-> "tagAdd", states |-> {}],
     channels |-> [verb |-> "channelAdd", states |-> {}],
     recorded |-> [verb |-> "dvrEntryAdd", states |-> {"completed"}],
     scheduled |->
         [verb |-> "dvrEntryAdd", states |-> {"scheduled", "recording"}],
     failed |-> [verb |-> "dvrEntryAdd", states |-> {"missed"}],
     auto_record_entries |-> [verb |-> "autorecEntryAdd", states |-> {}]]

\* the verb of message, "" when it names none
VerbOf(message) ==
    IF "method" \in DOMAIN message THEN message.method ELSE ""

\* the j-th message of synced is the last add of verb for its identifier
LastAdd(synced, j, verb) ==
    /\ VerbOf(synced[j]) = verb
    /\ \A h \in (j + 1)..Len(synced) :
          VerbOf(synced[h]) = verb =>
             synced[h][Verbs[verb].idkey] # synced[j][Verbs[verb].idkey]

\* the entities that the add records of synced deliver to the accessor name
Delivered(name, synced) ==
    {synced[j] : j \in {h \in 1..Len(synced) :
        /\ LastAdd(synced, h, Wanted[name].verb)
        /\ Wanted[name].states # {} =>
              synced[h].state \in Wanted[name].states}}

\* C11: a bulk accessor that found the session not synchronized has issued
\* enableAsyncMetadata and consumed the synchronization, its marker
\* included, when it returns; it returns exactly the entities of its kind
\* that the add records of that synchronization delivered, one for each
\* identifier, and the tags of a returned channel resolve in the tag cache.
C11_AccessorSyncs ==
    (ret.kind = "value" /\ ret.fn \in Accessors /\ ret.frame.fetched) =>
        LET synced == ret.frame.synced
        IN  /\ \E j \in 1..Len(wire) : wire[j].method = "enableAsyncMetadata"
            /\ \E j \in 1..Len(synced) :
                  VerbOf(synced[j]) = "initialSyncCompleted"
            /\ _initial_data
            /\ ret.val = Delivered(ret.fn, synced)
            /\ ret.fn = "channels" =>
                  \A channel \in ret.val :
                     \A j \in 1..Len(channel.tags) :
                        (\E h \in 1..Len(synced) :
                            /\ VerbOf(synced[h]) = "tagAdd"
                            /\ synced[h].tagId = channel.tags[j]) =>
                           /\ channel.tags[j] \in DOMAIN _tags
                           /\ ChannelTags(channel)[j] \in
                                 Delivered("tags", synced)

\* channels synchronized a fresh session with a tag, a channel mapped to it
\* and the marker, and returned the one channel, whose tag resolves
C11_Witness ==
    /\ ret.kind = "value"
    /\ ret.fn = "channels"
    /\ ret.frame.fetched
    /\ Len(ret.frame.synced) = 3
    /\ VerbOf(ret.frame.synced[3]) = "initialSyncCompleted"
    /\ Cardinality(ret.val) = 1
    /\ \A channel \in ret.val :
          /\ channel.channelName = 1
          /\ 1 \in DOMAIN _tags
          /\ ChannelTags(channel) = <<_tags[1]>>
    /\ Len(wire) = 2

-----------------------------------------------------------------------------
(* C12..C16: the operations that issue one command. *)

\* the operation on top of the stack is about to check the protocol version:
\* it has found the connection made, or hello() has just made it
AtGate ==
    /\ stack # <<>>
    /\ Top.fn \in {"diskspace", "system_time", "_get_events", "_get_channel"}
    /\ \/ /\ Top.pc = "start"
          /\ _sock # "None"
          /\ Top.fn = "_get_channel" => Top.arg \notin DOMAIN _channels
       \/ Top.pc = "await_hello" /\ ret.kind = "value" /\ ret.fn = "hello"

\* the version the server announced in its reply to hello
Negotiated == _hello # None /\ "htspversion" \in DOMAIN _hello

\* C12: diskspace and system_time below version 3, _get_events below
\* version 4 and _get_channel (for a channel that is not cached) below
\* version 14 raise ProtocolVersionException at the check: nothing is put
\* on the wire, and the sequence counter and the pending flag stay.
C12_GatedBeforeSend ==
    [][ (AtGate /\ Negotiated
         /\ _hello.htspversion <
               (CASE Top.fn \in {"diskspace", "system_time"} -> 3
                  [] Top.fn = "_get_events" -> 4
                  [] Top.fn = "_get_channel" -> 14)) =>
          /\ stack' = <<>>
          /\ ret'.kind = "error"
          /\ ret'.err = "ProtocolVersionException"
          /\ wire' = wire
          /\ _sequence' = _sequence
          /\ _command_pending' = _command_pending ]_vars

\* _get_channel of a channel that is not cached failed on a server of
\* version 13: hello is all that was sent
C12_Witness ==
    /\ ret.kind = "error"
    /\ ret.err = "ProtocolVersionException"
    /\ ret.frame.fn = "_get_channel"
    /\ _hello.htspversion = 13
    /\ Len(wire) = 1
    /\ wire[1].method = "hello"
    /\ _sequence = 1
    /\ ~_command_pending

\* the requests sent since the call of frame began
SentBy(frame) == SubSeq(wire, frame.wired + 1, Len(wire))

IsAuthenticate(request) == request.method = "authenticate"

\* an operation that has ended after it got the reply to its command
EndedOnReply(fn) ==
    /\ ret.kind # "none"
    /\ ret.frame.fn = fn
    /\ "message" \in DOMAIN ret.frame

\* C13: an authenticate that got its reply has sent exactly one
\* authenticate request, the last request on the wire; when the reply says
\* noaccess = 1 the call has failed with an error, and otherwise it has
\* returned.
C13_AuthenticateOnce ==
    EndedOnReply("authenticate") =>
        /\ Len(SelectSeq(SentBy(ret.frame), IsAuthenticate)) = 1
        /\ wire[Len(wire)].method = "authenticate"
        /\ wire[Len(wire)].seq = ret.frame.message.seq
        /\ IF "noaccess" \in DOMAIN ret.frame.message
              /\ ret.frame.message.noaccess = 1
           THEN ret.kind = "error" /\ ret.err = "AuthenticationFailed"
           ELSE ret.kind = "value"

\* authenticate on a fresh session said hello, sent one request with the
\* user and the digest, was denied and failed
C13_Witness ==
    /\ EndedOnReply("authenticate")
    /\ ret.err = "AuthenticationFailed"
    /\ ret.frame.message.noaccess = 1
    /\ ret.frame.wired = 0
    /\ Len(wire) = 2
    /\ wire[1].method = "hello"
    /\ "digest" \in DOMAIN wire[2]

\* the step sends a request
Sends == Len(wire') = Len(wire) + 1

\* the request the step sends
Sent == wire'[Len(wire')]

\* C14: a request sent once authenticate has been called with a password,
\* the authenticate request included, carries the username and the digest;
\* a request sent before that carries neither.  (_digest is set by that
\* call alone, before it sends; a session that authenticate(user) has given
\* a user without a password is left aside, its requests carry the user.)
C14_CredentialsSinceAuthenticate ==
    [][Sends =>
          IF _digest # 0
          THEN /\ "username" \in DOMAIN Sent /\ Sent.username = _user
               /\ "digest" \in DOMAIN Sent /\ Sent.digest = _digest
          ELSE /\ "digest" \notin DOMAIN Sent
               /\ _user = 0 => "username" \notin DOMAIN Sent]_vars

\* the reply signals failure: its flag is 0 and it carries an error text
SignalsFailure(message) ==
    /\ "success" \in DOMAIN message
    /\ message.success = 0
    /\ "error" \in DOMAIN message

IsCommand(request) == request.method # "hello"

\* C15: an operation whose command got a reply that signals failure has
\* ended with a RequestError, and has sent its command once.
C15_FailureSurfaced ==
    \A fn \in Ops :
        EndedOnReply(fn) /\ SignalsFailure(ret.frame.message) =>
            /\ ret.kind = "error"
            /\ ret.err = "RequestError"
            /\ Len(SelectSeq(SentBy(ret.frame), IsCommand)) = 1

\* _invoke_command has returned to add_dvr_entry a reply of success, and
\* while the request was pending the push dvrEntryAdd for the identifier of
\* the reply had arrived
AddedBeforeReply ==
    /\ stack # <<>>
    /\ Top.fn = "add_dvr_entry"
    /\ Back("add_dvr_entry", "await_invoke", "_invoke_command")
    /\ DOMAIN ret.val = {"seq", "success", "id"}
    /\ ret.val.success = 1
    /\ \E j \in 1..Len(ret.frame.arrived) :
          /\ ret.frame.arrived[j].method = "dvrEntryAdd"
          /\ ret.frame.arrived[j].id = ret.val.id

\* C16: when the push dvrEntryAdd for the new recording arrived before the
\* reply of success to addDvrEntry, add_dvr_entry returns, the recordings
\* cached hold the recording, and the value returned is the cached recording
\* under the identifier of the reply.
C16_AddedEntryReturned ==
    [][AddedBeforeReply =>
          /\ ret'.kind = "value"
          /\ ret'.fn = "add_dvr_entry"
          /\ ret.val.id \in DOMAIN _dvr_entries'
          /\ ret'.val = _dvr_entries'[ret.val.id]
          /\ ret'.val.id = ret.val.id
          /\ ret'.val.title =
                _as_add_dvr_entry_command(Top.arg, Top.event).title]_vars

\* add_dvr_entry has returned the recording that the push, held while the
\* request was pending, put into the cache
C16_Witness ==
    /\ ret.kind = "value"
    /\ ret.fn = "add_dvr_entry"
    /\ ret.frame.message.success = 1
    /\ ret.frame.message.id = 1
    /\ 1 \in DOMAIN _dvr_entries
    /\ ret.val = _dvr_entries[1]
    /\ ret.val.method = "dvrEntryAdd"
    /\ wire[Len(wire)].method = "addDvrEntry"
    /\ wire[Len(wire)].seq = ret.frame.message.seq

\* monitor() is in its loop: it waits in _recv, or _notify runs for it
Looping ==
    /\ stack # <<>>
    /\ stack[1].fn = "monitor"
    /\ stack[1].pc \in {"recv", "await_notify"}

\* the step is the interrupt of the monitor loop: it ends with no error, or
\* with the ValueError of a remove() that found nothing
Interrupted ==
    /\ Looping
    /\ stack' = <<>>
    /\ ret'.err \in {"none", "ValueError"}

\* the step raises an error
Raised == ret'.kind # "none" /\ ret'.err # "none"

\* C17: a step of the monitor loop either goes on with the loop, or is the
\* interrupt, which ends monitor and removes its callback from the
\* observers, or raises an error (in _recv, in a handler, in _notify or in
\* an observer), and then monitor ends at once and returns None, the error
\* being the one it prints.
C17_MonitorUntilStopped ==
    [][Looping =>
          IF Interrupted
          THEN IF IndexOf(_callbacks, stack[1].callback) # 0
               THEN /\ _callbacks' = Remove(_callbacks, stack[1].callback)
                    /\ ret' = Returned("monitor", None, Top)
               ELSE UNCHANGED _callbacks
          ELSE IF Raised
          THEN /\ stack' = <<>>
               /\ ret'.kind = "value"
               /\ ret'.fn = "monitor"
               /\ ret'.val = None
          ELSE /\ stack' # <<>>
               /\ stack'[1].fn = "monitor"
               /\ stack'[1].pc \in {"recv", "await_notify"}]_vars

\* monitor has returned after its second observer, called after the first
\* one, raised
C17_Witness ==
    /\ stack = <<>>
    /\ ret.kind = "value"
    /\ ret.fn = "monitor"
    /\ ret.err = "ObserverError"
    /\ ret.frame.fn = "_notify"
    /\ Len(ret.frame.invoked) = 2
    /\ ret.frame.invoked[1].callback = "obs"
    /\ ret.frame.invoked[2].callback = "raiser"
    /\ _callbacks = <<"obs", "raiser">>

\* message names a verb the session has no handler for
Unhandled(message) ==
    /\ "method" \in DOMAIN message
    /\ message.method \notin DOMAIN Verbs \cup {"initialSyncCompleted"}

\* the frame on top of the stack after the step
TopAfter == stack'[Len(stack')]

\* the step has raised an error on message, a local of the frame it left
FailedOn(message) ==
    /\ stack' = <<>>
    /\ ret'.kind # "none"
    /\ ret'.err # "none"
    /\ "message" \in DOMAIN ret'.frame
    /\ ret'.frame.message = message

\* the three places that hand a received message to _handleMessage: the
\* drain of the held messages, the loop of fetch_initial_data, the loop of
\* monitor; each goes on as the code does after a handler has returned
DrainGoesOn(message) ==
    /\ Len(stack') = Len(stack) + 1
    /\ TopAfter = NotifyFrame(message, None)
    /\ stack'[Len(stack)].pc = "await_notify"
    /\ stack'[Len(stack)].i = Top.i
    /\ UNCHANGED ret

SyncGoesOn(message) ==
    /\ Len(stack') = Len(stack)
    /\ TopAfter = [Top EXCEPT !.synced = Append(@, message)]
    /\ UNCHANGED ret

MonitorGoesOn(message) ==
    /\ Len(stack') = Len(stack) + 1
    /\ TopAfter = NotifyFrame(message, None)
    /\ stack'[Len(stack)].fn = "monitor"
    /\ UNCHANGED ret

\* the step takes message in the loop of fetch_initial_data or of monitor
Took(message) ==
    \/ FailedOn(message)
    \/ SyncGoesOn(message)
    \/ MonitorGoesOn(message)

\* C18: a message whose verb has no handler raises no error where it is
\* dispatched (the drain of the held messages, the loop of
\* fetch_initial_data, the loop of monitor), leaves the cache maps and the
\* flag of the synchronization as they are, and the loop goes on.
C18_UnhandledVerbIgnored ==
    [][/\ At("_invoke_command", "drain") /\ Draining(Top)
          /\ Unhandled(Top.notify_queue[Top.i])
          => /\ DrainGoesOn(Top.notify_queue[Top.i])
             /\ UNCHANGED <<maps, _initial_data>>
       /\ At("fetch_initial_data", "loop") /\ ~_initial_data
          => \A message \in PushTo(srv, Top) :
                Unhandled(message) /\ Took(message)
                => /\ SyncGoesOn(message)
                   /\ UNCHANGED <<maps, _initial_data>>
       /\ At("monitor", "recv")
          => \A message \in PushTo(srv, Top) :
                Unhandled(message) /\ Took(message)
                => /\ MonitorGoesOn(message)
                   /\ UNCHANGED <<maps, _initial_data>>]_vars

\* a request has returned after it had held a message with an unhandled
\* verb and then the push of a new recording; both were dispatched, the
\* second one into the cache
C18_Witness ==
    /\ InvokeReturned
    /\ Len(ret.frame.notified) = 2
    /\ ret.frame.notified[1] = [method |-> "subscriptionStatus"]
    /\ ret.frame.notified[2].method = "dvrEntryAdd"
    /\ 1 \in DOMAIN _dvr_entries

\* the held messages the call of frame has handed to _handleMessage, the
\* one whose dispatch raised included
Attempted(frame) ==
    IF frame.pc # "recv" /\ frame.notify_queue # <<>>
    THEN SubSeq(frame.notify_queue, 1,
                IF frame.i <= Len(frame.notify_queue) THEN frame.i
                ELSE Len(frame.notify_queue))
    ELSE <<>>

\* a call of _invoke_command that had sent its request has ended, with its
\* reply or with an error other than a failure of the transport
InvokeEnded ==
    /\ ret.kind # "none"
    /\ ret.frame.fn = "_invoke_command"
    /\ ret.frame.pc # "start"
    /\ ret.err # "TransportError"

\* C19: when a call of _invoke_command has ended, every message without a
\* sequence tag that arrived while its request was pending has been
\* dispatched, once and in the order of arrival.
C19_NoPushLost ==
    InvokeEnded => Attempted(ret.frame) = ret.frame.arrived

\* the flag says a command is pending, yet no call of _invoke_command
\* waits for a reply
Stuck ==
    /\ _command_pending
    /\ \A j \in 1..Len(stack) :
          stack[j].fn = "_invoke_command" => stack[j].pc = "start"

\* the step ends a call of _invoke_command with the out-of-sequence error
FailsOutOfSequence ==
    /\ At("_invoke_command", "recv")
    /\ ret'.kind # "none"
    /\ ret'.err = "OutOfSequence"

\* the step returns a reply from _invoke_command
ReturnsReply ==
    /\ At("_invoke_command", "drain")
    /\ ret'.kind = "value"
    /\ ret'.fn = "_invoke_command"

\* C20: the out-of-sequence error leaves the session stuck, and a stuck
\* session stays stuck: no step sends a request, and no step returns a
\* reply from _invoke_command.
C20_NeverCorrelatesAgain ==
    [][/\ FailsOutOfSequence => Stuck'
       /\ Stuck => /\ Stuck'
                   /\ ~Sends
                   /\ ~ReturnsReply
                   /\ UNCHANGED <<wire, _sequence>>]_vars

\* the request that followed hello has failed out of sequence, and the
\* session is stuck with the two requests it has sent
C20_Witness ==
    /\ stack = <<>>
    /\ ret.kind = "error"
    /\ ret.err = "OutOfSequence"
    /\ ret.frame.message.seq = 2
    /\ _sequence = 1
    /\ _command_pending
    /\ Len(wire) = 2
    /\ wire[2].method = "enableAsyncMetadata"

\* C21: an update for a cached identifier that carries a field with an
\* empty value leaves the record with that field unset: the field is gone
\* from the record, or holds the empty value of the message.
C21_EmptyValueUnsets ==
    [][ Applies("update") =>
          LET message == Dispatched'
              v == Verbs[message.method]
              id == message[v.idkey]
          IN  id \in DOMAIN MapOf(Cache, v.map) =>
                /\ Handled'
                /\ id \in DOMAIN MapOf(Cache', v.map)
                /\ \A key \in DOMAIN message :
                      ~Truthy(key, message[key]) =>
                        \/ key \notin DOMAIN MapOf(Cache', v.map)[id]
                        \/ MapOf(Cache', v.map)[id][key] = message[key] ]_vars

\* a call of fetch_initial_data is on the stack
InFetch == \E j \in 1..Len(stack) : stack[j].fn = "fetch_initial_data"

\* the step is the while loop of fetch_initial_data taking message
LoopTook(message) == FailedOn(message) \/ SyncGoesOn(message)

\* C22: fetch_initial_data returns only when the session is synchronized;
\* its while loop, once the marker has been dispatched (held before the
\* reply to enableAsyncMetadata or read by the loop), reads nothing more and
\* returns; a message with a sequence tag that the loop reads is dispatched
\* like any other, without the out-of-sequence error and without a change
\* of the sequence number or the pending flag; and a fetch_initial_data
\* whose marker has been dispatched does return.
C22_SyncTerminates ==
    /\ [][/\ (At("fetch_initial_data", "loop") /\ _initial_data) =>
             (/\ Len(stack') = Len(stack) - 1
              /\ ret' = Returned("fetch_initial_data", None, Top)
              /\ UNCHANGED <<maps, _initial_data>>)
          /\ (At("fetch_initial_data", "loop") /\ ~_initial_data) =>
             (/\ ~(ret'.kind = "value" /\ ret'.fn = "fetch_initial_data")
              /\ \A message \in PushTo(srv, Top) :
                    (Tagged(message) /\ LoopTook(message)) =>
                       (/\ SyncGoesOn(message)
                        /\ Cache' = _handleMessage(Cache, message).c
                        /\ UNCHANGED <<_sequence, _command_pending>>))]_vars
    /\ (InFetch /\ _initial_data) ~> (~InFetch /\ _initial_data)

\* fetch_initial_data has returned after its loop had read a record with a
\* sequence tag, a stray reply and then the marker
C22_Witness ==
    /\ ret.kind = "value"
    /\ ret.fn = "fetch_initial_data"
    /\ _initial_data
    /\ ret.frame.synced =
          <<[seq |-> 0, method |-> "tagAdd", tagId |-> 2, tagName |-> 1],
            [seq |-> 0], [method |-> "initialSyncCompleted"]>>
    /\ 2 \in DOMAIN _tags

\* message is the push of kind op for the record id of map
PushFor(message, op, map, id) ==
    /\ IsVerb(message, op)
    /\ Verbs[message.method].map = map
    /\ message[Verbs[message.method].idkey] = id

\* the step hands _handleMessage a message the session has received without
\* a sequence tag, in the drain of the held messages or in the loop of
\* fetch_initial_data or of monitor: a push of kind op for id of map
DispatchesPush(op, map, id) ==
    \/ /\ At("_invoke_command", "drain")
       /\ Draining(Top)
       /\ PushFor(Top.notify_queue[Top.i], op, map, id)
    \/ /\ At("fetch_initial_data", "loop") \/ At("monitor", "recv")
       /\ \E message \in PushTo(srv, Top) :
             /\ SyncGoesOn(message) \/ MonitorGoesOn(message)
             /\ PushFor(message, op, map, id)

\* C23: a record enters a cache map only in a step that dispatches an add
\* notification or bulk-sync record for its identifier, and leaves it only
\* in a step that dispatches a delete notification for its identifier.
C23_CacheFollowsPushes ==
    [][\A map \in {"tags", "channels", "events", "dvr", "autorec"} :
          LET old == DOMAIN MapOf(Cache, map)
              new == DOMAIN MapOf(Cache', map)
          IN  /\ \A id \in new \ old : DispatchesPush("add", map, id)
              /\ \A id \in old \ new : DispatchesPush("delete", map, id)]_vars

\* a call of _invoke_command is on the stack
Invoking == \E j \in 1..Len(stack) : stack[j].fn = "_invoke_command"

\* C24: while no call of _invoke_command is executing the pending flag is
\* clear, so that the next request is not rejected as busy.
C24_PendingOnlyWhileAwaiting ==
    ~Invoking => ~_command_pending

\* the fan-out of frame has called callback
ToldBy(frame, callback) ==
    \E j \in 1..Len(frame.invoked) : frame.invoked[j].callback = callback

\* C25: notifications reach every observer in the order of arrival.  A
\* fan-out that runs inside another one (an observer of the outer one has
\* issued a command, whose held notifications are being drained) is of a
\* message that arrived after the outer one's, so every observer the inner
\* fan-out has called was called by the outer one before.
C25_ArrivalOrderKept ==
    \A a \in 1..Len(stack) : \A b \in (a + 1)..Len(stack) :
        (stack[a].fn = "_notify" /\ stack[b].fn = "_notify") =>
            \A j \in 1..Len(_callbacks) :
                ToldBy(stack[b], _callbacks[j]) =>
                    ToldBy(stack[a], _callbacks[j])

\* _invoke_command has returned to add_dvr_entry a reply of success
AddSucceeded ==
    /\ stack # <<>>
    /\ Top.fn = "add_dvr_entry"
    /\ Back("add_dvr_entry", "await_invoke", "_invoke_command")
    /\ DOMAIN ret.val = {"seq", "success", "id"}
    /\ ret.val.success = 1

\* C26: add_dvr_entry whose reply reports success returns the recording of
\* the reply's identifier, whether or not the push dvrEntryAdd for it had
\* arrived before the reply.
C26_AddReturnsEntry ==
    [][AddSucceeded =>
          /\ ret'.kind = "value"
          /\ ret'.fn = "add_dvr_entry"
          /\ ret'.val.id = ret.val.id]_vars

\* C27: when monitor ends, by the interrupt or by an error, the callback it
\* had registered is not among the observers any more.
C27_CallbackGoneAfterMonitor ==
    [][(Looping /\ stack' = <<>>) =>
          \A j \in 1..Len(_callbacks') :
              _callbacks'[j] # stack[1].callback]_vars

\* _invoke_command has returned to authenticate a reply that denies access
Denied ==
    /\ stack # <<>>
    /\ Top.fn = "authenticate"
    /\ Back("authenticate", "await_invoke", "_invoke_command")
    /\ access_denied(ret.val)

\* C28: when authenticate fails because access is denied, the session does
\* not keep the rejected user name and digest, which _send would attach to
\* every request that follows.
C28_DeniedLeavesUnauthenticated ==
    [][Denied =>
          /\ ret'.err = "AuthenticationFailed"
          /\ _user' # Top.arg.user
          /\ Top.arg.password # 0 =>
                _digest' # _htsp_digest(Top.arg.user, Top.arg.password,
                                        _hello.challenge)]_vars

\* the first request of the session was hello, and its reply was matched:
\* the sequence number has moved past the one hello was sent with
HelloMatched ==
    /\ wire # <<>>
    /\ wire[1].method = "hello"
    /\ wire[1].seq = 0
    /\ _sequence >= 1

\* C29: a request with a method other than hello is sent only when the
\* first request of the session was hello and its reply has been matched.
C29_HelloFirst ==
    [][(Sends /\ Sent.method # "hello") => HelloMatched]_vars

\* an operation has said hello for the session, and cancel_dvr_entry, which
\* makes no connection itself, has then sent its request as the second one
C29_Witness ==
    /\ _command_pending
    /\ stack # <<>>
    /\ Top.fn = "_invoke_command"
    /\ Top.pc = "recv"
    /\ Len(wire) = 2
    /\ wire[1].method = "hello"
    /\ wire[2].method = "cancelDvrEntry"
    /\ wire[2].seq = 1

====
